---- MODULE Spec2Model ----
(***************************************************************************)
(* State-machine model of the gossh SSH server (pkg/ssh/server.go): the   *)
(* authorized-key set, the accept loop with its handshake, the per-       *)
(* connection channel-open loop, the per-channel request loop and the     *)
(* command executor.  Byte strings are sequences of byte values.          *)
(***************************************************************************)
EXTENDS Integers, Sequences, FiniteSets, TLC

\* ------------------------------------------------------------------ bounds
\* the longest command drawn byte by byte for the exec handler run on its own
MaxCmdLen == 3
\* events from outside in total: dials, channel-opens, channel requests, input
\* lines, ends of input and listener failures
MaxEvents == 5
\* entries of the authorized-keys data, where the loading loop is checked by itself
MaxKeyLines == 3

\* ------------------------------------------------------------ byte strings
\* "whoami"
whoami == <<119, 104, 111, 97, 109, 105>>
\* "uptime" (a six-byte command that is not in the table)
uptime == <<117, 112, 116, 105, 109, 101>>
\* "ls"
ls == <<108, 115>>
\* "You are: "
YouAre == <<89, 111, 117, 32, 97, 114, 101, 58, 32>>
\* "Command Not Found: "
CommandNotFound ==
    <<67, 111, 109, 109, 97, 110, 100, 32, 78, 111, 116, 32, 70, 111, 117, 110, 100, 58, 32>>
\* "\n"
NL == <<10>>
\* "who"
who == <<119, 104, 111>>
\* "quit"
quit == <<113, 117, 105, 116>>
\* "Goodbye!\n"
Goodbye == <<71, 111, 111, 100, 98, 121, 101, 33, 10>>
\* "Command not found\n"
TermNotFound ==
    <<67, 111, 109, 109, 97, 110, 100, 32, 110, 111, 116, 32, 102, 111, 117, 110, 100, 10>>
\* "alice", "bob"
alice == <<97, 108, 105, 99, 101>>
bob == <<98, 111, 98>>

\* []byte{0, 0, 0, 6}: the prefix the exec handler trims
ExecPrefix == <<0, 0, 0, 6>>
\* []byte{0, 0, 0, 0}: the exit-status payload
ExitStatusPayload == <<0, 0, 0, 0>>

HasPrefix(s, p) == Len(p) <= Len(s) /\ SubSeq(s, 1, Len(p)) = p

\* bytes.TrimPrefix: s without the leading p, or s itself when p is no prefix
TrimPrefix(s, p) == IF HasPrefix(s, p) THEN SubSeq(s, Len(p) + 1, Len(s)) ELSE s

\* the big-endian uint32 of n
U32BE(n) ==
    <<(n \div 16777216) % 256, (n \div 65536) % 256, (n \div 256) % 256, n % 256>>

\* the protocol's string encoding: a 4-byte big-endian length, then the bytes
\* (what session.Run(command) puts into the exec request's payload)
EncodeString(s) == U32BE(Len(s)) \o s

\* --------------------------------------------------------- command executor
\* an executor that does not echo the unknown command
execSomething_NoEcho(user, payload) ==
    IF payload = whoami
    THEN YouAre \o user \o NL
    ELSE CommandNotFound \o NL

\* execSomething(conn, payload), with user = conn.Conn.User()
execSomething(user, payload) ==
    IF payload = whoami
    THEN YouAre \o user \o NL
    ELSE CommandNotFound \o payload \o NL

\* ------------------------------------------------------- authorized keys
\* pubKey.Marshal(): the canonical bytes of a public key (one per key)
Marshal(pubKey) == <<pubKey>>

\* an authorized-keys line: a key with a comment, or a line that does not parse
KeyLine(k, c) == [ok |-> TRUE, key |-> k, comment |-> c]
BadLine == [ok |-> FALSE, key |-> "", comment |-> ""]

\* ssh.ParseAuthorizedKey(in): the first entry and the rest, or an error
ParseAuthorizedKey(in) ==
    IF Head(in).ok
    THEN [err |-> FALSE, pubKey |-> Head(in).key, rest |-> Tail(in)]
    ELSE [err |-> TRUE, pubKey |-> "", rest |-> <<>>]

\* a loading loop that skips the entries that do not parse
RECURSIVE LoadAuthorizedKeys_SkipBad(_, _)
LoadAuthorizedKeys_SkipBad(authorizedKeys, map) ==
    IF Len(authorizedKeys) = 0
    THEN [err |-> FALSE, map |-> map]
    ELSE IF Head(authorizedKeys).ok
         THEN LoadAuthorizedKeys_SkipBad(Tail(authorizedKeys),
                                         map \cup {Marshal(Head(authorizedKeys).key)})
         ELSE LoadAuthorizedKeys_SkipBad(Tail(authorizedKeys), map)

\* a loading loop whose map holds only the entry parsed last
RECURSIVE LoadAuthorizedKeys_LastOnly(_, _)
LoadAuthorizedKeys_LastOnly(authorizedKeys, map) ==
    IF Len(authorizedKeys) = 0
    THEN [err |-> FALSE, map |-> map]
    ELSE LET p == ParseAuthorizedKey(authorizedKeys)
         IN  IF p.err
             THEN [err |-> TRUE, map |-> {}]
             ELSE LoadAuthorizedKeys_LastOnly(p.rest, {Marshal(p.pubKey)})

\* the loading loop of StartServer: the map, or an error at the first bad entry
RECURSIVE LoadAuthorizedKeys(_, _)
LoadAuthorizedKeys(authorizedKeys, map) ==
    IF Len(authorizedKeys) = 0
    THEN [err |-> FALSE, map |-> map]
    ELSE LET p == ParseAuthorizedKey(authorizedKeys)
         IN  IF p.err
             THEN [err |-> TRUE, map |-> {}]
             ELSE LoadAuthorizedKeys(p.rest, map \cup {Marshal(p.pubKey)})

\* ------------------------------------------------------------------ inputs
\* the authorized-keys data the server may be started with
AuthFiles ==
    { <<KeyLine("K1", "a")>>,
      <<KeyLine("K2", "b"), KeyLine("K1", "c")>>,
      <<KeyLine("K1", "a"), BadLine>> }

\* the entries authorized-keys data is made of where the loading loop is
\* checked by itself: two keys, one of them with two different comments, and
\* an entry that does not parse
KeyEntries == {KeyLine("K1", "a"), KeyLine("K1", "b"), KeyLine("K2", "a"), BadLine}

\* the authorized-keys data of at most n entries
RECURSIVE KeyFiles(_)
KeyFiles(n) ==
    IF n = 0 THEN {<<>>}
    ELSE KeyFiles(n - 1) \cup
         {Append(f, e) : f \in {g \in KeyFiles(n - 1) : Len(g) = n - 1}, e \in KeyEntries}

\* the keys a peer may offer: those of the entries and one that is in no entry
CandidateKeys == {"K1", "K2", "K3"}

\* the flag values the server command may be started with: --bind, --port and
\* --allowed-commands (a comma-separated list, empty for unrestricted)
CmdConfigs ==
    { [bind |-> "0.0.0.0",   port |-> "2022", allowed |-> <<>>],
      [bind |-> "127.0.0.1", port |-> "2222", allowed |-> uptime],
      [bind |-> "0.0.0.0",   port |-> "2222", allowed |-> whoami \o <<44>> \o uptime] }

\* how a remote session ends, as session.Run and session.Wait report it: no
\* error (exit status 0), an ssh.ExitError with the non-zero exit status the
\* remote reported, or another error (no status reported, connection lost)
NoOutcome == [kind |-> "none", status |-> 0]
OkOutcome == [kind |-> "ok", status |-> 0]
ExitOutcome(n) == [kind |-> "exit", status |-> n]
ErrorOutcome == [kind |-> "error", status |-> 0]

\* the non-zero exit statuses a remote may report
ExitStatuses == {1, 2, 127}

\* the --cmd values of a client invocation
ClientCommands == {<<>>, whoami, ls}

\* the permission bits given to os.WriteFile for the private key (0o600) and
\* for the public key (0o644)
PrivatePerm == 384
PublicPerm == 420

\* a key file: whether it exists, its permission bits (0 when it does not
\* exist) and what it holds: "" (nothing or something else), "key" (the key
\* of this run) or "partial" (a write that failed midway)
KeyFile(e, m, h) == [exists |-> e, mode |-> m, holds |-> h]
NoFile == KeyFile(FALSE, 0, "")

\* the two key files, neither existing
NoKeyFiles == [private |-> NoFile, public |-> NoFile]

\* what may be at the path of a key file before keygen runs: nothing, or a
\* file left there with the permission bits 0o600 or 0o644
FilesBefore == {NoFile, KeyFile(TRUE, PrivatePerm, ""), KeyFile(TRUE, PublicPerm, "")}

\* how a call of os.WriteFile can end: written, failed to open or create the
\* file, or failed while writing to it
WriteResults == {"written", "open failed", "write failed"}

\* the peers that may dial: a user name, the public key offered, whether
\* the peer carries the handshake through (proves possession of the key), and
\* whether it stalls in the handshake (sends nothing and keeps the connection)
Peers ==
    { [user |-> alice, key |-> "K1", completes |-> TRUE, stalls |-> FALSE],
      [user |-> alice, key |-> "K1", completes |-> FALSE, stalls |-> FALSE],
      [user |-> bob,   key |-> "K2", completes |-> TRUE, stalls |-> FALSE] }

\* a peer that connects and then never sends its part of the handshake
StalledPeer == [user |-> bob, key |-> "K2", completes |-> FALSE, stalls |-> TRUE]

ChannelTypes == {"session", "shell-proxy"}

Request(t, p, w) == [type |-> t, payload |-> p, wantReply |-> w]

\* the channel requests a peer may send
Requests ==
    { Request("exec", EncodeString(whoami), TRUE),
      Request("exec", EncodeString(whoami), FALSE),
      Request("exec", EncodeString(ls), TRUE),
      Request("shell", <<>>, TRUE),
      Request("pty-req", <<>>, TRUE),
      Request("env", <<>>, TRUE) }

\* the input lines a peer may type into an interactive terminal
Lines == {whoami, <<>>, quit, who}

Users == {alice, bob}

\* the byte strings over a few byte values, up to a length
CmdBytes == {0, 6, 108, 115}
RECURSIVE ByteStrings(_)
ByteStrings(n) ==
    IF n = 0 THEN {<<>>}
    ELSE LET shorter == ByteStrings(n - 1)
         IN  shorter \cup {Append(s, b) : s \in {t \in shorter : Len(t) = n - 1}, b \in CmdBytes}

\* the commands a client may ask for
Commands ==
    ByteStrings(MaxCmdLen) \cup {whoami, uptime, ls, ExecPrefix \o ls, ExecPrefix \o whoami}

\* the exec payloads a peer may send: every command well-formed, and the same
\* bytes without a length in front (a malformed payload)
ExecRequests == {EncodeString(c) : c \in Commands} \cup Commands

\* ------------------------------------------------------------------- state
VARIABLES
    authorizedKeys,     \* the authorized-keys data passed to StartServer
    privateKeyOk,       \* whether the host key passed to StartServer parses
    authorizedKeysMap,  \* the set of marshaled keys built from it
    srvPc,              \* where StartServer is
    srvErr,             \* the error StartServer returned ("" while running)
    listener,           \* the listener: "none", "failed" (bind failed), "open",
                        \*   "error" (its next Accept fails), "closed" (every Accept fails)
    acceptFailed,       \* listener.Accept() has returned an error
    nConn,              \* the connection the accept loop is handshaking (0: none)
    conns,              \* the connections dialed, in order: state and peer
    chans,              \* per connection: its channel-open events, in order
    events,             \* the number of messages the peers have sent
    xPc,                \* the exec handler run on its own: "off", "request", "payload", "done"
    xUser,              \* ... the user of its connection
    xRequest,           \* ... the payload of the exec request
    xPayload,           \* ... the command bytes taken from it
    xResult,            \* ... the command executor's result
    listenAddr,         \* the address and port the listener is bound to (<<>>: none)
    cmdPc,              \* where the server command is ("off": StartServer called directly)
    bindAddress,        \* its --bind flag
    serverPort,         \* its --port flag
    allowedCmds,        \* its --allowed-commands flag
    cmdExit,            \* the code it exited with (-1 while running)
    cliPc,              \* where a client invocation is ("off": no client is modelled)
    cliDriver,          \* which client it is: "cmd" (cmd/client.go) or "main" (cmd/client/main.go)
    cliCommand,         \* its --cmd flag (empty: interactive)
    cliRemote,          \* the server it talks to: "gossh" (this server) or "other"
    cliOpened,          \* the session channels it has opened
    cliSent,            \* the channel requests it has sent, in order
    cliTrail,           \* the stages it has attempted, in order
    cliStage,           \* the stage that failed ("" when none)
    cliOutcome,         \* how the remote session ended, as Run or Wait reported it
    cliExit,            \* the code the client process exited with (-1 while running)
    cliTimedOut,        \* the timeout of its ssh configuration has failed a call
    kgPc,               \* where a keygen invocation is ("off": none is modelled)
    kgDriver,           \* which keygen it is: "cmd" (cmd/keygen.go) or "main" (cmd/keygen/main.go)
    kgFiles,            \* the private and the public key file: whether it exists, its
                        \*   permission bits and whether it holds the key of this run
    kgWrites,           \* the files os.WriteFile was called for, in order, with the
                        \*   permission asked for
    kgExit              \* the code the keygen process exited with (-1 while running)

srvVars ==
    <<authorizedKeys, privateKeyOk, authorizedKeysMap, srvPc, srvErr, listener,
      acceptFailed, listenAddr, nConn, conns, chans, events>>

lsnVars == <<listener, acceptFailed, listenAddr>>

xVars == <<xPc, xUser, xRequest, xPayload, xResult>>

cmdVars == <<cmdPc, bindAddress, serverPort, allowedCmds, cmdExit>>

cliVars ==
    <<cliPc, cliDriver, cliCommand, cliRemote, cliOpened, cliSent, cliTrail, cliStage,
      cliOutcome, cliExit, cliTimedOut>>

kgVars == <<kgPc, kgDriver, kgFiles, kgWrites, kgExit>>

vars == <<srvVars, xVars, cmdVars, cliVars, kgVars>>

ConnIds == 1..Len(conns)

\* a channel-open event and, once accepted, the channel:
\*   st        "new" (event queued), "rejected" or "accepted"
\*   arrived   the requests sent on it, in arrival order
\*   in        those its request loop has not received yet
\*   cur       those received and being handled
\*   done      those whose handling has returned, in order
\*   ops       the calls the server made on it, in order
\*   sentClose the server has closed it (the library's flag, which the loss
\*             of the connection sets too: nothing more is sent on it)
\*   terms     the interactive terminals attached to it (createTerminal calls)
\*   ended     the terminals among them whose loop has ended
\*   stdin     the input lines sent on it and not yet read by a terminal
\*   eof       the peer has sent end-of-input
\*   read      the lines its terminals have read, in order
\*   reqEnded  its request loop has ended
NewChannel(t) ==
    [type |-> t, st |-> "new", arrived |-> <<>>, in |-> <<>>, cur |-> <<>>,
     done |-> <<>>, ops |-> <<>>, sentClose |-> FALSE, terms |-> 0, ended |-> 0,
     stdin |-> <<>>, eof |-> FALSE, read |-> <<>>, reqEnded |-> FALSE]

\* one call on a channel: by the handling of request number n of the channel
\* (0: by the channel-open loop; -k: by a terminal, after its channel's k-th
\* ReadLine returned); sent tells whether it reached the peer
Op(op, n, name, data, ok, sent) ==
    [op |-> op, n |-> n, name |-> name, data |-> data, ok |-> ok, sent |-> sent]

Init ==
    /\ authorizedKeys \in AuthFiles
    /\ privateKeyOk \in BOOLEAN
    /\ authorizedKeysMap = {}
    /\ srvPc = "start"
    /\ srvErr = ""
    /\ listener = "none"
    /\ acceptFailed = FALSE
    /\ nConn = 0
    /\ conns = <<>>
    /\ chans = <<>>
    /\ events = 0
    /\ xPc = "off"
    /\ xUser = <<>>
    /\ xRequest = <<>>
    /\ xPayload = <<>>
    /\ xResult = <<>>
    /\ listenAddr = <<>>
    /\ cmdPc = "off"
    /\ bindAddress = "0.0.0.0"
    /\ serverPort = "2022"
    /\ allowedCmds = <<>>
    /\ cmdExit = -1
    /\ cliPc = "off"
    /\ cliDriver = "cmd"
    /\ cliCommand = <<>>
    /\ cliRemote = "gossh"
    /\ cliOpened = 0
    /\ cliSent = <<>>
    /\ cliTrail = <<>>
    /\ cliStage = ""
    /\ cliOutcome = NoOutcome
    /\ cliExit = -1
    /\ cliTimedOut = FALSE
    /\ kgPc = "off"
    /\ kgDriver = "cmd"
    /\ kgFiles = NoKeyFiles
    /\ kgWrites = <<>>
    /\ kgExit = -1

\* ------------------------------------------------------------- StartServer
\* lines 15-24: build authorizedKeysMap, or return the parse error
ParseAuthorizedKeys ==
    /\ srvPc = "start"
    /\ LET r == LoadAuthorizedKeys(authorizedKeys, {})
       IN  IF r.err
           THEN /\ srvPc' = "returned"
                /\ srvErr' = "parse authorized keys error"
                /\ UNCHANGED authorizedKeysMap
           ELSE /\ srvPc' = "parsePrivateKey"
                /\ authorizedKeysMap' = r.map
                /\ UNCHANGED srvErr
    /\ UNCHANGED <<authorizedKeys, privateKeyOk, nConn, conns, chans, events, lsnVars, xVars, cmdVars, cliVars, kgVars>>

\* lines 40-45: parse the host key and add it to the config
ParsePrivateKey ==
    /\ srvPc = "parsePrivateKey"
    /\ IF privateKeyOk
       THEN srvPc' = "listen" /\ UNCHANGED srvErr
       ELSE srvPc' = "returned" /\ srvErr' = "ParsePrivateKey error"
    /\ UNCHANGED <<authorizedKeys, privateKeyOk, authorizedKeysMap, nConn, conns, chans, events, lsnVars, xVars, cmdVars, cliVars, kgVars>>

\* line 48: the address and port given to net.Listen
ListenAddress == <<"0.0.0.0", "2022">>

\* a bind whose failure is not returned
Listen_IgnoreError ==
    /\ srvPc = "listen"
    /\ \E bound \in BOOLEAN :
         /\ srvPc' = "accept"
         /\ listener' = IF bound THEN "open" ELSE "failed"
         /\ listenAddr' = IF bound THEN ListenAddress ELSE <<>>
    /\ UNCHANGED <<authorizedKeys, privateKeyOk, authorizedKeysMap, srvErr, acceptFailed,
                   nConn, conns, chans, events, xVars, cmdVars, cliVars, kgVars>>

\* lines 48-51: bind the listener; the bind may fail
Listen ==
    /\ srvPc = "listen"
    /\ \E bound \in BOOLEAN :
         IF bound
         THEN /\ srvPc' = "accept" /\ listener' = "open" /\ listenAddr' = ListenAddress
              /\ UNCHANGED srvErr
         ELSE /\ srvPc' = "returned" /\ listener' = "failed" /\ srvErr' = "listen error"
              /\ UNCHANGED listenAddr
    /\ UNCHANGED <<authorizedKeys, privateKeyOk, authorizedKeysMap, acceptFailed, nConn,
                   conns, chans, events, xVars, cmdVars, cliVars, kgVars>>

\* the listener fails: once (a transient accept error) or for good
ListenerFails(how) ==
    /\ listener = "open"
    /\ events < MaxEvents
    /\ listener' = how
    /\ events' = events + 1
    /\ UNCHANGED <<authorizedKeys, privateKeyOk, authorizedKeysMap, srvPc, srvErr,
                   acceptFailed, listenAddr, nConn, conns, chans, xVars, cmdVars, cliVars, kgVars>>

\* lines 56-60: listener.Accept() returns an error; it is printed and the
\* loop continues
AcceptError ==
    /\ srvPc = "accept"
    /\ listener \in {"error", "closed"}
    /\ acceptFailed' = TRUE
    /\ listener' = IF listener = "error" THEN "open" ELSE "closed"
    /\ UNCHANGED <<authorizedKeys, privateKeyOk, authorizedKeysMap, srvPc, srvErr, nConn,
                   listenAddr, conns, chans, events, xVars, cmdVars, cliVars, kgVars>>

\* a callback that permits every key
PublicKeyCallback_PermitAll(pubKey) == TRUE

\* the PublicKeyCallback of the server config (lines 27-37): permitted or not
PublicKeyCallback(pubKey) == Marshal(pubKey) \in authorizedKeysMap

\* a peer connects to the listener (ssh.Dial on the client side)
Dial(p) ==
    /\ srvPc \in {"accept", "handshake"}
    /\ events < MaxEvents
    /\ conns' = Append(conns, [st |-> "dialed", peer |-> p, lost |-> FALSE,
                                loopEnded |-> FALSE])
    /\ chans' = Append(chans, <<>>)
    /\ events' = events + 1
    /\ UNCHANGED <<authorizedKeys, privateKeyOk, authorizedKeysMap, srvPc, srvErr, nConn, lsnVars, xVars, cmdVars, cliVars, kgVars>>

\* an accept loop that hands the handshake to a task of its own and goes on
\* accepting
Accept_HandshakeInTask(c) ==
    /\ srvPc = "accept"
    /\ listener = "open"
    /\ conns[c].st = "dialed"
    /\ \A d \in ConnIds : d < c => conns[d].st # "dialed"
    /\ conns' = [conns EXCEPT ![c].st = "handshaking"]
    /\ nConn' = c
    /\ UNCHANGED <<authorizedKeys, privateKeyOk, authorizedKeysMap, srvPc, srvErr, chans, events, lsnVars, xVars, cmdVars, cliVars, kgVars>>

\* lines 56-60: listener.Accept() returns the next waiting connection
Accept(c) ==
    /\ srvPc = "accept"
    /\ listener = "open"
    /\ conns[c].st = "dialed"
    /\ \A d \in ConnIds : d < c => conns[d].st # "dialed"
    /\ conns' = [conns EXCEPT ![c].st = "handshaking"]
    /\ nConn' = c
    /\ srvPc' = "handshake"
    /\ UNCHANGED <<authorizedKeys, privateKeyOk, authorizedKeysMap, srvErr, chans, events, lsnVars, xVars, cmdVars, cliVars, kgVars>>

\* ssh.NewServerConn(nConn, config): the handshake succeeds when the callback
\* permits the offered key and the peer carries the protocol through
NewServerConn(c) == PublicKeyCallback(conns[c].peer.key) /\ conns[c].peer.completes

\* a handshake whose failure does not skip the dispatch (no continue)
Handshake_DispatchOnError ==
    /\ srvPc = "handshake"
    /\ ~conns[nConn].peer.stalls
    /\ conns' = [conns EXCEPT ![nConn].st = "serving"]
    /\ nConn' = 0
    /\ srvPc' = "accept"
    /\ UNCHANGED <<authorizedKeys, privateKeyOk, authorizedKeysMap, srvErr, chans, events, lsnVars, xVars, cmdVars, cliVars, kgVars>>

\* a handshake whose failure is returned from StartServer
Handshake_ReturnOnError ==
    /\ srvPc = "handshake"
    /\ ~conns[nConn].peer.stalls
    /\ conns' = [conns EXCEPT ![nConn].st =
                    IF NewServerConn(nConn) THEN "serving" ELSE "failed"]
    /\ nConn' = 0
    /\ IF NewServerConn(nConn)
       THEN srvPc' = "accept" /\ UNCHANGED srvErr
       ELSE srvPc' = "returned" /\ srvErr' = "new server conn error"
    /\ UNCHANGED <<authorizedKeys, privateKeyOk, authorizedKeysMap, chans, events, lsnVars, xVars, cmdVars, cliVars, kgVars>>

\* lines 63-77: the handshake on the accepted connection; on success the
\* connection gets its handleConnection task, on failure the loop goes on
Handshake ==
    /\ srvPc = "handshake"
    /\ ~conns[nConn].peer.stalls
    /\ conns' = [conns EXCEPT ![nConn].st =
                    IF NewServerConn(nConn) THEN "serving" ELSE "failed"]
    /\ nConn' = 0
    /\ srvPc' = "accept"
    /\ UNCHANGED <<authorizedKeys, privateKeyOk, authorizedKeysMap, srvErr, chans, events, lsnVars, xVars, cmdVars, cliVars, kgVars>>

\* ----------------------------------------------------------------- the peer
\* a peer sends a channel-open message on a connection it has dialed
OpenChannel(c, t) ==
    /\ conns[c].st \in {"dialed", "handshaking", "serving"}
    /\ ~conns[c].lost
    /\ events < MaxEvents
    /\ chans' = [chans EXCEPT ![c] = Append(@, NewChannel(t))]
    /\ events' = events + 1
    /\ UNCHANGED <<authorizedKeys, privateKeyOk, authorizedKeysMap, srvPc, srvErr, nConn, conns, lsnVars, xVars, cmdVars, cliVars, kgVars>>

\* a peer sends a channel request on a channel the server has confirmed
SendRequest(c, i, r) ==
    /\ chans[c][i].st = "accepted"
    /\ ~conns[c].lost
    /\ events < MaxEvents
    /\ chans' = [chans EXCEPT ![c][i].in = Append(@, r), ![c][i].arrived = Append(@, r)]
    /\ events' = events + 1
    /\ UNCHANGED <<authorizedKeys, privateKeyOk, authorizedKeysMap, srvPc, srvErr, nConn, conns, lsnVars, xVars, cmdVars, cliVars, kgVars>>

\* a peer sends a line of input on a channel the server has confirmed
SendLine(c, i, l) ==
    /\ chans[c][i].st = "accepted"
    /\ ~conns[c].lost
    /\ ~chans[c][i].eof
    /\ events < MaxEvents
    /\ chans' = [chans EXCEPT ![c][i].stdin = Append(@, l)]
    /\ events' = events + 1
    /\ UNCHANGED <<authorizedKeys, privateKeyOk, authorizedKeysMap, srvPc, srvErr, nConn, conns, lsnVars, xVars, cmdVars, cliVars, kgVars>>

\* a peer ends the input of a channel the server has confirmed
SendEOF(c, i) ==
    /\ chans[c][i].st = "accepted"
    /\ ~conns[c].lost
    /\ ~chans[c][i].eof
    /\ events < MaxEvents
    /\ chans' = [chans EXCEPT ![c][i].eof = TRUE]
    /\ events' = events + 1
    /\ UNCHANGED <<authorizedKeys, privateKeyOk, authorizedKeysMap, srvPc, srvErr, nConn, conns, lsnVars, xVars, cmdVars, cliVars, kgVars>>

\* -------------------------------------------------------- handleConnection
\* a channel-open loop that accepts every channel type
HandleNewChannel_AcceptAll(c, i) ==
    /\ conns[c].st = "serving"
    /\ chans[c][i].st = "new"
    /\ \A j \in 1..(i - 1) : chans[c][j].st # "new"
    /\ chans' = [chans EXCEPT ![c][i].st = "accepted"]
    /\ UNCHANGED <<authorizedKeys, privateKeyOk, authorizedKeysMap, srvPc, srvErr, nConn, conns, events, lsnVars, xVars, cmdVars, cliVars, kgVars>>

\* lines 82-95: the next channel-open event of a served connection is rejected
\* unless its type is "session", and accepted otherwise; on a connection that
\* is lost the rejection is not sent, and Accept returns an error (lines 92-95:
\* the loop goes on to the next event)
HandleNewChannel(c, i) ==
    /\ conns[c].st = "serving"
    /\ chans[c][i].st = "new"
    /\ \A j \in 1..(i - 1) : chans[c][j].st # "new"
    /\ chans' = [chans EXCEPT ![c][i] =
          IF @.type # "session"
          THEN [@ EXCEPT !.st = "rejected",
                         !.ops = Append(@, Op("Reject", 0, "unknown channel type", <<>>, FALSE,
                                              ~conns[c].lost))]
          ELSE IF conns[c].lost
               THEN [@ EXCEPT !.st = "failed"]
               ELSE [@ EXCEPT !.st = "accepted"]]
    /\ UNCHANGED <<authorizedKeys, privateKeyOk, authorizedKeysMap, srvPc, srvErr, nConn, conns, events, lsnVars, xVars, cmdVars, cliVars, kgVars>>

\* the payload handed on with its length prefix
ExecPayload_NoTrim(req) == req.payload

\* line 105: the command bytes taken from the exec payload
ExecPayload(req) == TrimPrefix(req.payload, ExecPrefix)

\* an exec handler that closes the channel before it replies
HandleExec_CloseBeforeReply(ch, req, user) ==
    LET n == Len(ch.done) + 1
        open == ~ch.sentClose
    IN  [ch EXCEPT
           !.ops = @ \o << Op("Write", n, "", execSomething(user, ExecPayload(req)), FALSE, open),
                           Op("SendRequest", n, "exit-status", ExitStatusPayload, FALSE, open),
                           Op("Close", n, "", <<>>, FALSE, open),
                           Op("Reply", n, "", <<>>, TRUE, FALSE) >>,
           !.sentClose = TRUE]

\* an exec handler that reports status 127 for a command the executor did not find
HandleExec_StatusOfResult(ch, req, user) ==
    LET n == Len(ch.done) + 1
        open == ~ch.sentClose
        status == IF ExecPayload(req) = whoami THEN ExitStatusPayload ELSE <<0, 0, 0, 127>>
    IN  [ch EXCEPT
           !.ops = @ \o << Op("Write", n, "", execSomething(user, ExecPayload(req)), FALSE, open),
                           Op("SendRequest", n, "exit-status", status, FALSE, open),
                           Op("Reply", n, "", <<>>, TRUE, open /\ req.wantReply),
                           Op("Close", n, "", <<>>, FALSE, open) >>,
           !.sentClose = TRUE]

\* lines 104-109: exec. Write, SendRequest, Reply and Close are called in this
\* order; a call on a channel the server has closed returns an error and
\* sends nothing, and Reply sends nothing unless the request wants a reply
HandleExec(ch, req, user) ==
    LET n == Len(ch.done) + 1
        open == ~ch.sentClose
    IN  [ch EXCEPT
           !.ops = @ \o << Op("Write", n, "", execSomething(user, ExecPayload(req)), FALSE, open),
                           Op("SendRequest", n, "exit-status", ExitStatusPayload, FALSE, open),
                           Op("Reply", n, "", <<>>, TRUE, open /\ req.wantReply),
                           Op("Close", n, "", <<>>, FALSE, open) >>,
           !.sentClose = TRUE]

\* a shell handler that also attaches a terminal to the channel
HandleShell_AttachTerminal(ch, req) ==
    [ch EXCEPT !.ops = Append(@, Op("Reply", Len(ch.done) + 1, "", <<>>, TRUE,
                                      ~ch.sentClose /\ req.wantReply)),
               !.terms = @ + 1]

\* lines 110-111: shell
HandleShell(ch, req) ==
    [ch EXCEPT !.ops = Append(@, Op("Reply", Len(ch.done) + 1, "", <<>>, TRUE,
                                      ~ch.sentClose /\ req.wantReply))]

\* a pty-req case that also answers the request
HandlePtyReq_Reply(ch, req) ==
    [ch EXCEPT !.ops = Append(@, Op("Reply", Len(ch.done) + 1, "", <<>>, TRUE,
                                      ~ch.sentClose /\ req.wantReply)),
               !.terms = @ + 1]

\* lines 112-113 and 122-124: pty-req attaches a terminal to the channel
HandlePtyReq(ch, req) == [ch EXCEPT !.terms = @ + 1]

\* a default case that closes the channel after the failure reply
HandleDefault_Close(ch, req) ==
    [ch EXCEPT !.ops = @ \o << Op("Reply", Len(ch.done) + 1, "", <<>>, FALSE,
                                   ~ch.sentClose /\ req.wantReply),
                               Op("Close", Len(ch.done) + 1, "", <<>>, FALSE, ~ch.sentClose) >>,
               !.sentClose = TRUE]

\* lines 114-115: any other request type
HandleDefault(ch, req) ==
    [ch EXCEPT !.ops = Append(@, Op("Reply", Len(ch.done) + 1, "", <<>>, FALSE,
                                      ~ch.sentClose /\ req.wantReply))]

\* a request loop that hands every request to a task of its own
ReceiveRequest_Spawn(c, i) ==
    /\ conns[c].st = "serving"
    /\ chans[c][i].st = "accepted"
    /\ chans[c][i].in # <<>>
    /\ chans' = [chans EXCEPT ![c][i].in = Tail(@),
                              ![c][i].cur = Append(@, Head(chans[c][i].in))]
    /\ UNCHANGED <<authorizedKeys, privateKeyOk, authorizedKeysMap, srvPc, srvErr, nConn, conns, events, lsnVars, xVars, cmdVars, cliVars, kgVars>>

\* line 101: the request loop of an accepted channel receives the next request
\* of the channel; it is back at the head of the loop only when the handling
\* of the request before has returned
ReceiveRequest(c, i) ==
    /\ conns[c].st = "serving"
    /\ chans[c][i].st = "accepted"
    /\ chans[c][i].cur = <<>>
    /\ chans[c][i].in # <<>>
    /\ chans' = [chans EXCEPT ![c][i].in = Tail(@),
                              ![c][i].cur = Append(@, Head(chans[c][i].in))]
    /\ UNCHANGED <<authorizedKeys, privateKeyOk, authorizedKeysMap, srvPc, srvErr, nConn, conns, events, lsnVars, xVars, cmdVars, cliVars, kgVars>>

\* lines 103-116: the switch on the request type
HandleRequestType(ch, req, user) ==
    CASE req.type = "exec" -> HandleExec(ch, req, user)
      [] req.type = "shell" -> HandleShell(ch, req)
      [] req.type = "pty-req" -> HandlePtyReq(ch, req)
      [] OTHER -> HandleDefault(ch, req)

\* lines 102-116: the body of the request loop handles the request received
HandleRequest(c, i) ==
    /\ conns[c].st = "serving"
    /\ chans[c][i].st = "accepted"
    /\ chans[c][i].cur # <<>>
    /\ LET ch == chans[c][i]
           req == Head(ch.cur)
           after == HandleRequestType(ch, req, conns[c].peer.user)
       IN  chans' = [chans EXCEPT ![c][i] =
                        [after EXCEPT !.cur = Tail(ch.cur), !.done = Append(ch.done, req)]]
    /\ UNCHANGED <<authorizedKeys, privateKeyOk, authorizedKeysMap, srvPc, srvErr, nConn, conns, events, lsnVars, xVars, cmdVars, cliVars, kgVars>>

\* ----------------------------------------------------------- createTerminal
\* A TermWrite is a call of termInstance.Write with the bytes given (the
\* terminal library renders them on the channel, a line feed as carriage
\* return and line feed, and draws its prompt; that rendering is the library's
\* and is not modelled). On a channel the server has closed it sends nothing.
\* A call made after the k-th ReadLine of the channel returned has n = -k.

\* a "whoami" case that matches every line beginning with "who"
IsWhoami_Prefix(line) == HasPrefix(line, who)

\* line 133: case "whoami"
IsWhoami(line) == line = whoami

\* lines 133-134: the executor's result for "whoami" is written
TermWhoami(ch, user) ==
    [ch EXCEPT !.ops = Append(@, Op("TermWrite", 0 - (Len(ch.read) + 1), "",
                                    execSomething(user, whoami), FALSE, ~ch.sentClose))]

\* an empty line answered like an unknown command
TermEmpty_NotFound(ch) ==
    [ch EXCEPT !.ops = Append(@, Op("TermWrite", 0 - (Len(ch.read) + 1), "",
                                    TermNotFound, FALSE, ~ch.sentClose))]

\* lines 135-136: the empty line
TermEmpty(ch) == ch

\* a "quit" case that reports an exit status before it closes the channel
TermQuit_ExitStatus(ch) ==
    [ch EXCEPT !.ops = @ \o << Op("TermWrite", 0 - (Len(ch.read) + 1), "", Goodbye, FALSE,
                                   ~ch.sentClose),
                               Op("SendRequest", 0 - (Len(ch.read) + 1), "exit-status",
                                   ExitStatusPayload, FALSE, ~ch.sentClose),
                               Op("Close", 0 - (Len(ch.read) + 1), "", <<>>, FALSE,
                                   ~ch.sentClose) >>,
               !.sentClose = TRUE]

\* lines 137-139: "quit" writes the farewell and closes the channel; the
\* case does not leave the loop
TermQuit(ch) ==
    [ch EXCEPT !.ops = @ \o << Op("TermWrite", 0 - (Len(ch.read) + 1), "", Goodbye, FALSE,
                                   ~ch.sentClose),
                               Op("Close", 0 - (Len(ch.read) + 1), "", <<>>, FALSE,
                                   ~ch.sentClose) >>,
               !.sentClose = TRUE]

\* lines 140-141: every other line
TermDefault(ch) ==
    [ch EXCEPT !.ops = Append(@, Op("TermWrite", 0 - (Len(ch.read) + 1), "",
                                    TermNotFound, FALSE, ~ch.sentClose))]

\* lines 132-142: the terminal's switch on the line read
TermDispatch(ch, line, user) ==
    CASE IsWhoami(line) -> TermWhoami(ch, user)
      [] line = <<>> -> TermEmpty(ch)
      [] line = quit -> TermQuit(ch)
      [] OTHER -> TermDefault(ch)

\* a read error after which the loop reads again
TermReadError_NoBreak(ch) ==
    [ch EXCEPT !.ops = Append(@, Op("Close", 0 - (Len(ch.read) + 1), "", <<>>, FALSE, ~ch.sentClose)),
               !.sentClose = TRUE]

\* lines 125-131: ReadLine returns an error (end of input): the loop is left
\* and the deferred channel.Close() runs
TermReadError(ch) ==
    [ch EXCEPT !.ops = Append(@, Op("Close", 0 - (Len(ch.read) + 1), "", <<>>, FALSE, ~ch.sentClose)),
               !.sentClose = TRUE,
               !.ended = @ + 1]

\* lines 126-143: one turn of the loop of a terminal of the channel: ReadLine
\* returns the next line, which is dispatched, or the end of input
TermReadLine(c, i) ==
    /\ conns[c].st = "serving"
    /\ chans[c][i].terms > chans[c][i].ended
    /\ chans[c][i].stdin # <<>> \/ chans[c][i].eof
    /\ LET ch == chans[c][i]
       IN  chans' = [chans EXCEPT ![c][i] =
              IF ch.stdin # <<>>
              THEN [TermDispatch(ch, Head(ch.stdin), conns[c].peer.user)
                      EXCEPT !.stdin = Tail(ch.stdin), !.read = Append(ch.read, Head(ch.stdin))]
              ELSE TermReadError(ch)]
    /\ UNCHANGED <<authorizedKeys, privateKeyOk, authorizedKeysMap, srvPc, srvErr, nConn, conns, events, lsnVars, xVars, cmdVars, cliVars, kgVars>>

\* ------------------------------------------------------ a connection is lost
\* When the transport of a served connection fails or the peer closes it, the
\* ssh library closes every channel of it: the input of the channel is at its
\* end, nothing more is sent on it and its requests channel is closed; then it
\* closes the channel-open channel given to handleConnection. What had been
\* delivered before stays to be received.

\* a loss that leaves the input of the channels open
ConnLost_KeepsInput(c) ==
    /\ conns[c].st = "serving"
    /\ ~conns[c].lost
    /\ events < MaxEvents
    /\ conns' = [conns EXCEPT ![c].lost = TRUE]
    /\ chans' = [chans EXCEPT ![c] =
                    [i \in 1..Len(@) |->
                       IF @[i].st = "accepted" THEN [@[i] EXCEPT !.sentClose = TRUE] ELSE @[i]]]
    /\ events' = events + 1
    /\ UNCHANGED <<authorizedKeys, privateKeyOk, authorizedKeysMap, srvPc, srvErr, nConn, lsnVars, xVars, cmdVars, cliVars, kgVars>>

\* the connection c, which is being served, is closed by the peer or lost
ConnLost(c) ==
    /\ conns[c].st = "serving"
    /\ ~conns[c].lost
    /\ events < MaxEvents
    /\ conns' = [conns EXCEPT ![c].lost = TRUE]
    /\ chans' = [chans EXCEPT ![c] =
                    [i \in 1..Len(@) |->
                       IF @[i].st = "accepted"
                       THEN [@[i] EXCEPT !.sentClose = TRUE, !.eof = TRUE]
                       ELSE @[i]]]
    /\ events' = events + 1
    /\ UNCHANGED <<authorizedKeys, privateKeyOk, authorizedKeysMap, srvPc, srvErr, nConn, lsnVars, xVars, cmdVars, cliVars, kgVars>>

\* line 82: "for newChannel := range chans" ends when the channel-open
\* channel is closed and every event delivered on it has been taken
ChannelLoopEnds(c) ==
    /\ conns[c].st = "serving"
    /\ conns[c].lost
    /\ ~conns[c].loopEnded
    /\ \A i \in 1..Len(chans[c]) : chans[c][i].st # "new"
    /\ conns' = [conns EXCEPT ![c].loopEnded = TRUE]
    /\ UNCHANGED <<authorizedKeys, privateKeyOk, authorizedKeysMap, srvPc, srvErr, nConn, chans, events, lsnVars, xVars, cmdVars, cliVars, kgVars>>

\* line 101: "for req := range in" ends when the requests channel is closed,
\* every request delivered on it has been received and the last one handled
RequestLoopEnds(c, i) ==
    /\ conns[c].st = "serving"
    /\ conns[c].lost
    /\ chans[c][i].st = "accepted"
    /\ ~chans[c][i].reqEnded
    /\ chans[c][i].in = <<>>
    /\ chans[c][i].cur = <<>>
    /\ chans' = [chans EXCEPT ![c][i].reqEnded = TRUE]
    /\ UNCHANGED <<authorizedKeys, privateKeyOk, authorizedKeysMap, srvPc, srvErr, nConn, conns, events, lsnVars, xVars, cmdVars, cliVars, kgVars>>

\* ------------------------------------------------------ the server command
\* cmd/keygen/main.go lines 89-94: the host key file is read, or exit 1
CmdReadServerKey ==
    /\ cmdPc = "readServerKey"
    /\ \E readable \in BOOLEAN :
         IF readable
         THEN cmdPc' = "readAuthorizedKeys" /\ UNCHANGED cmdExit
         ELSE cmdPc' = "exited" /\ cmdExit' = 1
    /\ UNCHANGED <<srvVars, xVars, cliVars, kgVars, bindAddress, serverPort, allowedCmds>>

\* lines 99-104: the authorized-keys file is read, or exit 1
CmdReadAuthorizedKeys ==
    /\ cmdPc = "readAuthorizedKeys"
    /\ \E readable \in BOOLEAN :
         IF readable
         THEN cmdPc' = "startServer" /\ UNCHANGED cmdExit
         ELSE cmdPc' = "exited" /\ cmdExit' = 1
    /\ UNCHANGED <<srvVars, xVars, cliVars, kgVars, bindAddress, serverPort, allowedCmds>>

\* lines 107-133: the flags are printed and ssh.StartServer is called with
\* the two files' bytes, and with nothing else
CmdStartServer ==
    /\ cmdPc = "startServer"
    /\ srvPc = "idle"
    /\ cmdPc' = "inStartServer"
    /\ srvPc' = "start"
    /\ UNCHANGED <<authorizedKeys, privateKeyOk, authorizedKeysMap, srvErr, nConn, conns, chans,
                   events, lsnVars, xVars, cliVars, kgVars, bindAddress, serverPort, allowedCmds, cmdExit>>

\* lines 133-137: StartServer has returned an error: exit 1
CmdServerFailed ==
    /\ cmdPc = "inStartServer"
    /\ srvPc = "returned"
    /\ cmdPc' = "exited"
    /\ cmdExit' = 1
    /\ UNCHANGED <<srvVars, xVars, cliVars, kgVars, bindAddress, serverPort, allowedCmds>>

\* ------------------------------------------------------------- the client
\* The client is cmd/client.go (lines given first) or cmd/client/main.go
\* (lines given second). What the remote answers at a stage is drawn from
\* every answer the protocol allows when the remote is another server
\* ("other"), and is what this server's request switch does when the remote is
\* this server ("gossh"). A remote that is "hung" answers the requests for a
\* terminal and a shell and then neither ends nor closes the session.

\* the user the client logs in as
ClientUser == alice

\* the session channel of the client on this server, before any request
SessionChannel == [NewChannel("session") EXCEPT !.st = "accepted"]

\* the channel after this server handled the request on it
Served(ch, req) ==
    [HandleRequestType(ch, req, ClientUser) EXCEPT !.done = Append(ch.done, req)]

\* what the sender of the last request of ch gets back from this server:
\* the reply, an error when the channel was closed without one, or nothing
ReplyFrom(ch) ==
    LET rs == SelectSeq(ch.ops, LAMBDA o : o.n = Len(ch.done) /\ o.op = "Reply" /\ o.sent)
    IN  IF rs # <<>> THEN (IF rs[1].ok THEN "success" ELSE "failure")
        ELSE IF ch.sentClose THEN "error"
        ELSE "none"

\* the value of four bytes, big-endian
DecodeU32(p) == p[1] * 16777216 + p[2] * 65536 + p[3] * 256 + p[4]

\* how the session ends on channel ch of this server: by the exit status it
\* sent, or by an error when it sent none
EndOf(ch) ==
    LET st == SelectSeq(ch.ops, LAMBDA o : o.op = "SendRequest" /\ o.name = "exit-status" /\ o.sent)
    IN  IF st = <<>> THEN ErrorOutcome
        ELSE IF DecodeU32(st[1].data) = 0 THEN OkOutcome
        ELSE ExitOutcome(DecodeU32(st[1].data))

\* the requests the client sends
ExecRequest(command) == Request("exec", EncodeString(command), TRUE)
PtyRequest == Request("pty-req", <<>>, TRUE)
ShellRequest == Request("shell", <<>>, TRUE)

\* every way a remote session can end
Outcomes == {OkOutcome, ErrorOutcome} \cup {ExitOutcome(n) : n \in ExitStatuses}

\* the results session.Run(command) can have (none: it does not return)
RunOutcomes(remote, command) ==
    IF remote = "other" THEN Outcomes
    ELSE IF remote = "hung" THEN {}
    ELSE LET ch == Served(SessionChannel, ExecRequest(command))
         IN  CASE ReplyFrom(ch) = "none" -> {}
               [] ReplyFrom(ch) = "success" -> {EndOf(ch)}
               [] OTHER -> {ErrorOutcome}

\* the answers session.RequestPty can get (none: it does not return)
PtyReplies(remote) ==
    IF remote = "other" THEN {"success", "failure", "error"}
    ELSE IF remote = "hung" THEN {"success"}
    ELSE {ReplyFrom(Served(SessionChannel, PtyRequest))} \ {"none"}

\* the answers session.Shell can get
ShellReplies(remote) ==
    IF remote = "other" THEN {"success", "failure", "error"}
    ELSE IF remote = "hung" THEN {"success"}
    ELSE {ReplyFrom(Served(Served(SessionChannel, PtyRequest), ShellRequest))} \ {"none"}

\* the results session.Wait can have in interactive mode
WaitOutcomes(remote) ==
    IF remote = "other" THEN Outcomes
    ELSE IF remote = "hung" THEN {}
    ELSE {EndOf(Served(Served(SessionChannel, PtyRequest), ShellRequest))}

\* a stage has failed: the client prints the stage and calls os.Exit(1)
CliFail(stage) ==
    /\ cliPc' = "Exited"
    /\ cliStage' = stage
    /\ cliExit' = 1

\* a stage has succeeded and the client goes on to the stage at pc
CliGoOn(pc) ==
    /\ cliPc' = pc
    /\ UNCHANGED <<cliStage, cliExit>>

\* an invalid timeout after which the client goes on with its default
CliParseTimeout_Default ==
    /\ cliPc = "ParseTimeout"
    /\ cliTrail' = Append(cliTrail, "timeout")
    /\ \E valid \in BOOLEAN :
         IF valid THEN CliGoOn("ReadKey")
         ELSE /\ cliPc' = "ReadKey" /\ cliStage' = "timeout" /\ UNCHANGED cliExit
    /\ UNCHANGED <<srvVars, xVars, cmdVars, kgVars, cliTimedOut, cliDriver, cliCommand, cliRemote, cliOpened,
                   cliSent, cliOutcome>>

\* lines 66-72 (cmd/client.go only): time.ParseDuration(timeout)
CliParseTimeout ==
    /\ cliPc = "ParseTimeout"
    /\ cliTrail' = Append(cliTrail, "timeout")
    /\ \E valid \in BOOLEAN :
         IF valid THEN CliGoOn("ReadKey") ELSE CliFail("timeout")
    /\ UNCHANGED <<srvVars, xVars, cmdVars, kgVars, cliTimedOut, cliDriver, cliCommand, cliRemote, cliOpened,
                   cliSent, cliOutcome>>

\* lines 76-81, 29-33: os.ReadFile of the private key
CliReadKey ==
    /\ cliPc = "ReadKey"
    /\ cliTrail' = Append(cliTrail, "key load")
    /\ \E readable \in BOOLEAN :
         IF readable THEN CliGoOn("ParseKey") ELSE CliFail("key load")
    /\ UNCHANGED <<srvVars, xVars, cmdVars, kgVars, cliTimedOut, cliDriver, cliCommand, cliRemote, cliOpened,
                   cliSent, cliOutcome>>

\* lines 85-90, 35-39: ssh.ParsePrivateKey
CliParseKey ==
    /\ cliPc = "ParseKey"
    /\ cliTrail' = Append(cliTrail, "key parse")
    /\ \E parses \in BOOLEAN :
         IF parses THEN CliGoOn("Dialing") ELSE CliFail("key parse")
    /\ UNCHANGED <<srvVars, xVars, cmdVars, kgVars, cliTimedOut, cliDriver, cliCommand, cliRemote, cliOpened,
                   cliSent, cliOutcome>>

\* the ways ssh.Dial can end: connected and authenticated, failed (refused,
\* or the key not accepted), or the Timeout of the configuration elapsed
DialResults == {"connected", "failed", "timeout"}

\* lines 96-103 and 117-128, 40-55: ssh.Dial with the configuration's Timeout
\* connects and authenticates, or fails
CliDial ==
    /\ cliPc = "Dialing"
    /\ cliTrail' = Append(cliTrail, "dial")
    /\ \E r \in DialResults :
         /\ IF r = "connected" THEN CliGoOn("Authenticated") ELSE CliFail("dial")
         /\ cliTimedOut' = (r = "timeout")
    /\ UNCHANGED <<srvVars, xVars, cmdVars, kgVars, cliDriver, cliCommand, cliRemote, cliOpened,
                   cliSent, cliOutcome>>

\* a client that requests a terminal whatever its command is
CliNewSession_AlwaysPty ==
    /\ cliPc = "Authenticated"
    /\ cliTrail' = Append(cliTrail, "session")
    /\ cliOpened' = cliOpened + 1
    /\ \E opened \in BOOLEAN :
         IF opened THEN CliGoOn("RequestingPTY") ELSE CliFail("session")
    /\ UNCHANGED <<srvVars, xVars, cmdVars, kgVars, cliTimedOut, cliDriver, cliCommand, cliRemote, cliSent,
                   cliOutcome>>

\* lines 135-147, 58-69: client.NewSession() opens a session channel; then
\* the command decides the branch
CliNewSession ==
    /\ cliPc = "Authenticated"
    /\ cliTrail' = Append(cliTrail, "session")
    /\ cliOpened' = cliOpened + 1
    /\ \E opened \in BOOLEAN :
         IF opened
         THEN CliGoOn(IF cliCommand # <<>> THEN "Executing" ELSE "RequestingPTY")
         ELSE CliFail("session")
    /\ UNCHANGED <<srvVars, xVars, cmdVars, kgVars, cliTimedOut, cliDriver, cliCommand, cliRemote, cliSent,
                   cliOutcome>>

\* a Run that the timeout of the configuration ends when the remote command
\* does not
CliRun_Deadline ==
    /\ cliPc = "Executing"
    /\ \/ \E o \in RunOutcomes(cliRemote, cliCommand) :
            /\ cliOutcome' = o
            /\ IF o.kind = "ok"
               THEN cliPc' = "Done" /\ cliExit' = 0 /\ UNCHANGED cliStage
               ELSE CliFail("exec")
            /\ UNCHANGED cliTimedOut
       \/ /\ CliFail("exec")
          /\ cliTimedOut' = TRUE
          /\ UNCHANGED cliOutcome
    /\ cliTrail' = Append(cliTrail, "exec")
    /\ cliSent' = Append(cliSent, "exec")
    /\ UNCHANGED <<srvVars, xVars, cmdVars, kgVars, cliDriver, cliCommand, cliRemote, cliOpened>>

\* lines 159-170, 71-75: session.Run(command) sends exec and waits for the
\* end of the remote command; every error is answered by os.Exit(1)
CliRun ==
    /\ cliPc = "Executing"
    /\ \E o \in RunOutcomes(cliRemote, cliCommand) :
         /\ cliOutcome' = o
         /\ IF o.kind = "ok"
            THEN cliPc' = "Done" /\ cliExit' = 0 /\ UNCHANGED cliStage
            ELSE CliFail("exec")
    /\ cliTrail' = Append(cliTrail, "exec")
    /\ cliSent' = Append(cliSent, "exec")
    /\ UNCHANGED <<srvVars, xVars, cmdVars, kgVars, cliTimedOut, cliDriver, cliCommand, cliRemote, cliOpened>>

\* lines 183-187, 87-90: session.RequestPty sends pty-req and waits for the
\* reply
CliRequestPty ==
    /\ cliPc = "RequestingPTY"
    /\ \E r \in PtyReplies(cliRemote) :
         IF r = "success" THEN CliGoOn("StartingShell") ELSE CliFail("pty")
    /\ cliTrail' = Append(cliTrail, "pty")
    /\ cliSent' = Append(cliSent, "pty-req")
    /\ UNCHANGED <<srvVars, xVars, cmdVars, kgVars, cliTimedOut, cliDriver, cliCommand, cliRemote, cliOpened,
                   cliOutcome>>

\* lines 193-197, 92-95: session.Shell sends shell and waits for the reply
CliShell ==
    /\ cliPc = "StartingShell"
    /\ \E r \in ShellReplies(cliRemote) :
         IF r = "success" THEN CliGoOn("Interactive") ELSE CliFail("shell")
    /\ cliTrail' = Append(cliTrail, "shell")
    /\ cliSent' = Append(cliSent, "shell")
    /\ UNCHANGED <<srvVars, xVars, cmdVars, kgVars, cliTimedOut, cliDriver, cliCommand, cliRemote, cliOpened,
                   cliOutcome>>

\* a wait that answers every error by the generic code
CliWait_Generic ==
    /\ cliPc = "Interactive"
    /\ \E o \in WaitOutcomes(cliRemote) :
         /\ cliOutcome' = o
         /\ IF o.kind = "ok"
            THEN cliPc' = "Done" /\ cliExit' = 0 /\ UNCHANGED cliStage
            ELSE CliFail("wait")
    /\ cliTrail' = Append(cliTrail, "wait")
    /\ UNCHANGED <<srvVars, xVars, cmdVars, kgVars, cliTimedOut, cliDriver, cliCommand, cliRemote, cliOpened,
                   cliSent>>

\* lines 199-212, 97-104: session.Wait; an ssh.ExitError is answered by
\* os.Exit(e.ExitStatus()), any other error by os.Exit(1)
CliWait ==
    /\ cliPc = "Interactive"
    /\ \E o \in WaitOutcomes(cliRemote) :
         /\ cliOutcome' = o
         /\ CASE o.kind = "ok" -> cliPc' = "Done" /\ cliExit' = 0 /\ UNCHANGED cliStage
              [] o.kind = "exit" ->
                    cliPc' = "Exited" /\ cliExit' = o.status /\ cliStage' = "wait"
              [] OTHER -> CliFail("wait")
    /\ cliTrail' = Append(cliTrail, "wait")
    /\ UNCHANGED <<srvVars, xVars, cmdVars, kgVars, cliTimedOut, cliDriver, cliCommand, cliRemote, cliOpened,
                   cliSent>>

\* -------------------------------------------------------------- keygen
\* The keygen command is cmd/keygen.go (lines given first) or
\* cmd/keygen/main.go (lines given second). The permission bits of a file are
\* those the operating system gives it when os.WriteFile creates it (the
\* process's file mode creation mask is taken to clear none of them).

\* os.WriteFile(name, data, perm): the file is created with perm when it does
\* not exist and is truncated, its permission bits unchanged, when it does
WriteFile(file, perm, result) ==
    CASE result = "open failed" -> file
      [] result = "write failed" ->
            KeyFile(TRUE, IF file.exists THEN file.mode ELSE perm, "partial")
      [] OTHER -> KeyFile(TRUE, IF file.exists THEN file.mode ELSE perm, "key")

\* the process prints the error and calls os.Exit(1)
KgFail ==
    /\ kgPc' = "Exited"
    /\ kgExit' = 1

\* lines 37-41, 17-20: ssh.GenerateKeys() returns the key pair or an error
KgGenerate ==
    /\ kgPc = "Generate"
    /\ \E generated \in BOOLEAN :
         IF generated THEN kgPc' = "WritePrivate" /\ UNCHANGED kgExit ELSE KgFail
    /\ UNCHANGED <<srvVars, xVars, cmdVars, cliVars, kgDriver, kgFiles, kgWrites>>

\* lines 44-47, 22-25: os.WriteFile(privateKeyOut, privateKey, 0o600)
KgWritePrivate ==
    /\ kgPc = "WritePrivate"
    /\ \E r \in WriteResults :
         /\ kgFiles' = [kgFiles EXCEPT !.private = WriteFile(@, PrivatePerm, r)]
         /\ IF r = "written" THEN kgPc' = "WritePublic" /\ UNCHANGED kgExit ELSE KgFail
    /\ kgWrites' = Append(kgWrites, <<"private", PrivatePerm>>)
    /\ UNCHANGED <<srvVars, xVars, cmdVars, cliVars, kgDriver>>

\* lines 50-53, 27-30: os.WriteFile(publicKeyOut, publicKey, 0o644)
KgWritePublic ==
    /\ kgPc = "WritePublic"
    /\ \E r \in WriteResults :
         /\ kgFiles' = [kgFiles EXCEPT !.public = WriteFile(@, PublicPerm, r)]
         /\ IF r = "written" THEN kgPc' = "Done" /\ kgExit' = 0 ELSE KgFail
    /\ kgWrites' = Append(kgWrites, <<"public", PublicPerm>>)
    /\ UNCHANGED <<srvVars, xVars, cmdVars, cliVars, kgDriver>>

\* ------------------------------------------- the exec handler on its own
\* line 105, applied to the payload of one exec request
TrimPayload ==
    /\ xPc = "request"
    /\ xPayload' = ExecPayload([payload |-> xRequest])
    /\ xPc' = "payload"
    /\ UNCHANGED <<srvVars, cmdVars, cliVars, kgVars, xUser, xRequest, xResult>>

\* line 106: execSomething(conn, payload)
CallExecSomething ==
    /\ xPc = "payload"
    /\ xResult' = execSomething(xUser, xPayload)
    /\ xPc' = "done"
    /\ UNCHANGED <<srvVars, cmdVars, cliVars, kgVars, xUser, xRequest, xPayload>>

Next ==
    \/ ParseAuthorizedKeys
    \/ ParsePrivateKey
    \/ Listen
    \/ \E how \in {"error", "closed"} : ListenerFails(how)
    \/ AcceptError
    \/ \E p \in Peers : Dial(p)
    \/ \E c \in ConnIds : Accept(c)
    \/ Handshake
    \/ \E c \in ConnIds, t \in ChannelTypes : OpenChannel(c, t)
    \/ \E c \in ConnIds : \E i \in 1..Len(chans[c]), r \in Requests : SendRequest(c, i, r)
    \/ \E c \in ConnIds : \E i \in 1..Len(chans[c]) : HandleNewChannel(c, i)
    \/ \E c \in ConnIds : \E i \in 1..Len(chans[c]), l \in Lines : SendLine(c, i, l)
    \/ \E c \in ConnIds : \E i \in 1..Len(chans[c]) : SendEOF(c, i)
    \/ \E c \in ConnIds : \E i \in 1..Len(chans[c]) : TermReadLine(c, i)
    \/ \E c \in ConnIds : \E i \in 1..Len(chans[c]) : ReceiveRequest(c, i)
    \/ \E c \in ConnIds : \E i \in 1..Len(chans[c]) : HandleRequest(c, i)

Spec == Init /\ [][Next]_vars

\* the exec handler's payload decoding and the command executor, for every
\* user and payload drawn: the server around them is the one just constructed
InitExec ==
    /\ authorizedKeys = <<KeyLine("K1", "a")>>
    /\ privateKeyOk = TRUE
    /\ authorizedKeysMap = {}
    /\ srvPc = "start"
    /\ srvErr = ""
    /\ listener = "none"
    /\ acceptFailed = FALSE
    /\ nConn = 0
    /\ conns = <<>>
    /\ chans = <<>>
    /\ events = 0
    /\ xPc = "request"
    /\ xUser \in Users
    /\ xRequest \in ExecRequests
    /\ xPayload = <<>>
    /\ xResult = <<>>
    /\ listenAddr = <<>>
    /\ cmdPc = "off"
    /\ bindAddress = "0.0.0.0"
    /\ serverPort = "2022"
    /\ allowedCmds = <<>>
    /\ cmdExit = -1
    /\ cliPc = "off"
    /\ cliDriver = "cmd"
    /\ cliCommand = <<>>
    /\ cliRemote = "gossh"
    /\ cliOpened = 0
    /\ cliSent = <<>>
    /\ cliTrail = <<>>
    /\ cliStage = ""
    /\ cliOutcome = NoOutcome
    /\ cliExit = -1
    /\ cliTimedOut = FALSE
    /\ kgPc = "off"
    /\ kgDriver = "cmd"
    /\ kgFiles = NoKeyFiles
    /\ kgWrites = <<>>
    /\ kgExit = -1

NextExec == TrimPayload \/ CallExecSomething

SpecExec == InitExec /\ [][NextExec]_vars

\* the loading of authorized-keys data of every order and with repeated
\* entries, up to the host key
InitKeys ==
    /\ authorizedKeys \in KeyFiles(MaxKeyLines)
    /\ privateKeyOk \in BOOLEAN
    /\ authorizedKeysMap = {}
    /\ srvPc = "start"
    /\ srvErr = ""
    /\ listener = "none"
    /\ acceptFailed = FALSE
    /\ nConn = 0
    /\ conns = <<>>
    /\ chans = <<>>
    /\ events = 0
    /\ xPc = "off"
    /\ xUser = <<>>
    /\ xRequest = <<>>
    /\ xPayload = <<>>
    /\ xResult = <<>>
    /\ listenAddr = <<>>
    /\ cmdPc = "off"
    /\ bindAddress = "0.0.0.0"
    /\ serverPort = "2022"
    /\ allowedCmds = <<>>
    /\ cmdExit = -1
    /\ cliPc = "off"
    /\ cliDriver = "cmd"
    /\ cliCommand = <<>>
    /\ cliRemote = "gossh"
    /\ cliOpened = 0
    /\ cliSent = <<>>
    /\ cliTrail = <<>>
    /\ cliStage = ""
    /\ cliOutcome = NoOutcome
    /\ cliExit = -1
    /\ cliTimedOut = FALSE
    /\ kgPc = "off"
    /\ kgDriver = "cmd"
    /\ kgFiles = NoKeyFiles
    /\ kgWrites = <<>>
    /\ kgExit = -1

NextKeys == ParseAuthorizedKeys \/ ParsePrivateKey

SpecKeys == InitKeys /\ [][NextKeys]_vars

\* the server command, started with every configuration of its flags, and
\* the server it starts
InitCmd ==
    /\ authorizedKeys = <<KeyLine("K1", "a")>>
    /\ privateKeyOk = TRUE
    /\ authorizedKeysMap = {}
    /\ srvPc = "idle"
    /\ srvErr = ""
    /\ listener = "none"
    /\ acceptFailed = FALSE
    /\ nConn = 0
    /\ conns = <<>>
    /\ chans = <<>>
    /\ events = 0
    /\ xPc = "off"
    /\ xUser = <<>>
    /\ xRequest = <<>>
    /\ xPayload = <<>>
    /\ xResult = <<>>
    /\ listenAddr = <<>>
    /\ cmdPc = "readServerKey"
    /\ \E cfg \in CmdConfigs :
         /\ bindAddress = cfg.bind
         /\ serverPort = cfg.port
         /\ allowedCmds = cfg.allowed
    /\ cmdExit = -1
    /\ cliPc = "off"
    /\ cliDriver = "cmd"
    /\ cliCommand = <<>>
    /\ cliRemote = "gossh"
    /\ cliOpened = 0
    /\ cliSent = <<>>
    /\ cliTrail = <<>>
    /\ cliStage = ""
    /\ cliOutcome = NoOutcome
    /\ cliExit = -1
    /\ cliTimedOut = FALSE
    /\ kgPc = "off"
    /\ kgDriver = "cmd"
    /\ kgFiles = NoKeyFiles
    /\ kgWrites = <<>>
    /\ kgExit = -1

NextCmd ==
    \/ CmdReadServerKey
    \/ CmdReadAuthorizedKeys
    \/ CmdStartServer
    \/ CmdServerFailed
    \/ Next

SpecCmd == InitCmd /\ [][NextCmd]_vars

\* one invocation of a client, for every client, command and remote
InitClient ==
    /\ authorizedKeys = <<KeyLine("K1", "a")>>
    /\ privateKeyOk = TRUE
    /\ authorizedKeysMap = {}
    /\ srvPc = "idle"
    /\ srvErr = ""
    /\ listener = "none"
    /\ acceptFailed = FALSE
    /\ nConn = 0
    /\ conns = <<>>
    /\ chans = <<>>
    /\ events = 0
    /\ xPc = "off"
    /\ xUser = <<>>
    /\ xRequest = <<>>
    /\ xPayload = <<>>
    /\ xResult = <<>>
    /\ listenAddr = <<>>
    /\ cmdPc = "off"
    /\ bindAddress = "0.0.0.0"
    /\ serverPort = "2022"
    /\ allowedCmds = <<>>
    /\ cmdExit = -1
    /\ cliDriver \in {"cmd", "main"}
    /\ cliPc = IF cliDriver = "cmd" THEN "ParseTimeout" ELSE "ReadKey"
    /\ cliCommand \in ClientCommands
    /\ cliRemote \in {"gossh", "other", "hung"}
    /\ cliOpened = 0
    /\ cliSent = <<>>
    /\ cliTrail = <<>>
    /\ cliStage = ""
    /\ cliOutcome = NoOutcome
    /\ cliExit = -1
    /\ cliTimedOut = FALSE
    /\ kgPc = "off"
    /\ kgDriver = "cmd"
    /\ kgFiles = NoKeyFiles
    /\ kgWrites = <<>>
    /\ kgExit = -1

NextClient ==
    \/ CliParseTimeout
    \/ CliReadKey
    \/ CliParseKey
    \/ CliDial
    \/ CliNewSession
    \/ CliRun
    \/ CliRequestPty
    \/ CliShell
    \/ CliWait

SpecClient == InitClient /\ [][NextClient]_vars

\* the client's steps are taken whenever one is possible
SpecClientFair == SpecClient /\ WF_vars(NextClient)

\* one keygen invocation, with or without files where it writes its keys
InitKeygen ==
    /\ authorizedKeys = <<KeyLine("K1", "a")>>
    /\ privateKeyOk = TRUE
    /\ authorizedKeysMap = {}
    /\ srvPc = "idle"
    /\ srvErr = ""
    /\ listener = "none"
    /\ acceptFailed = FALSE
    /\ nConn = 0
    /\ conns = <<>>
    /\ chans = <<>>
    /\ events = 0
    /\ xPc = "off"
    /\ xUser = <<>>
    /\ xRequest = <<>>
    /\ xPayload = <<>>
    /\ xResult = <<>>
    /\ listenAddr = <<>>
    /\ cmdPc = "off"
    /\ bindAddress = "0.0.0.0"
    /\ serverPort = "2022"
    /\ allowedCmds = <<>>
    /\ cmdExit = -1
    /\ cliDriver = "cmd"
    /\ cliPc = "off"
    /\ cliCommand = <<>>
    /\ cliRemote = "gossh"
    /\ cliOpened = 0
    /\ cliSent = <<>>
    /\ cliTrail = <<>>
    /\ cliStage = ""
    /\ cliOutcome = NoOutcome
    /\ cliExit = -1
    /\ cliTimedOut = FALSE
    /\ kgPc = "Generate"
    /\ kgDriver \in {"cmd", "main"}
    /\ kgFiles \in [{"private", "public"} -> FilesBefore]
    /\ kgWrites = <<>>
    /\ kgExit = -1

NextKeygen == KgGenerate \/ KgWritePrivate \/ KgWritePublic

SpecKeygen == InitKeygen /\ [][NextKeygen]_vars

\* the server with its listener open, and peers whose connections may be lost:
\* the tasks of a connection (handleConnection and what it starts)
InitLoss ==
    /\ authorizedKeys = <<KeyLine("K2", "b"), KeyLine("K1", "c")>>
    /\ privateKeyOk = TRUE
    /\ authorizedKeysMap = LoadAuthorizedKeys(authorizedKeys, {}).map
    /\ srvPc = "accept"
    /\ srvErr = ""
    /\ listener = "open"
    /\ acceptFailed = FALSE
    /\ nConn = 0
    /\ conns = <<>>
    /\ chans = <<>>
    /\ events = 0
    /\ xPc = "off"
    /\ xUser = <<>>
    /\ xRequest = <<>>
    /\ xPayload = <<>>
    /\ xResult = <<>>
    /\ listenAddr = ListenAddress
    /\ cmdPc = "off"
    /\ bindAddress = "0.0.0.0"
    /\ serverPort = "2022"
    /\ allowedCmds = <<>>
    /\ cmdExit = -1
    /\ cliPc = "off"
    /\ cliDriver = "cmd"
    /\ cliCommand = <<>>
    /\ cliRemote = "gossh"
    /\ cliOpened = 0
    /\ cliSent = <<>>
    /\ cliTrail = <<>>
    /\ cliStage = ""
    /\ cliOutcome = NoOutcome
    /\ cliExit = -1
    /\ cliTimedOut = FALSE
    /\ kgPc = "off"
    /\ kgDriver = "cmd"
    /\ kgFiles = NoKeyFiles
    /\ kgWrites = <<>>
    /\ kgExit = -1

\* the peers of these connections (the handshake of each succeeds), and the
\* requests and the lines they send
LossPeers == {p \in Peers : p.completes}

LossRequests ==
    { Request("exec", EncodeString(whoami), TRUE),
      Request("pty-req", <<>>, TRUE) }

LossLines == {whoami, quit}

\* a step of one of the tasks of connection c: its channel-open loop, the
\* request loop of one of its channels or a terminal of one of its channels
ServerTask(c) ==
    \/ \E i \in 1..Len(chans[c]) : HandleNewChannel(c, i)
    \/ \E i \in 1..Len(chans[c]) : ReceiveRequest(c, i)
    \/ \E i \in 1..Len(chans[c]) : HandleRequest(c, i)
    \/ \E i \in 1..Len(chans[c]) : TermReadLine(c, i)
    \/ \E i \in 1..Len(chans[c]) : RequestLoopEnds(c, i)
    \/ ChannelLoopEnds(c)

NextLoss ==
    \/ \E p \in LossPeers : Dial(p)
    \/ \E c \in ConnIds : Accept(c)
    \/ Handshake
    \/ \E c \in ConnIds, t \in ChannelTypes : OpenChannel(c, t)
    \/ \E c \in ConnIds : \E i \in 1..Len(chans[c]), r \in LossRequests : SendRequest(c, i, r)
    \/ \E c \in ConnIds : \E i \in 1..Len(chans[c]), l \in LossLines : SendLine(c, i, l)
    \/ \E c \in ConnIds : ConnLost(c)
    \/ \E c \in ConnIds : ServerTask(c)

SpecLoss == InitLoss /\ [][NextLoss]_vars

\* every task of the server is a goroutine of its own, which the Go scheduler
\* runs when it can take a step
SpecLossFair == SpecLoss /\ WF_vars(\E c \in ConnIds : ServerTask(c))

\* the server with its listener open, and peers of which some stall in the
\* handshake
StallPeers == LossPeers \cup {StalledPeer}

NextStall ==
    \/ \E p \in StallPeers : Dial(p)
    \/ \E c \in ConnIds : Accept(c)
    \/ Handshake
    \/ \E c \in ConnIds : OpenChannel(c, "session")
    \/ \E c \in ConnIds : \E i \in 1..Len(chans[c]), r \in LossRequests : SendRequest(c, i, r)
    \/ \E c \in ConnIds : \E i \in 1..Len(chans[c]) : HandleNewChannel(c, i)
    \/ \E c \in ConnIds : \E i \in 1..Len(chans[c]) : ReceiveRequest(c, i)
    \/ \E c \in ConnIds : \E i \in 1..Len(chans[c]) : HandleRequest(c, i)

SpecStall == InitLoss /\ [][NextStall]_vars

\* ------------------------------------------------------------------ claims
\* the offered key is one of the keys of the authorized-keys data
KeyInFile(k) ==
    \E i \in 1..Len(authorizedKeys) :
        authorizedKeys[i].ok /\ Marshal(authorizedKeys[i].key) = Marshal(k)

\* the handshake of connection c has returned
Handshaken(c) == conns[c].st \in {"serving", "failed"}

\* the calls the handling of request n made on a channel, in order
OpsBy(ch, n) == SelectSeq(ch.ops, LAMBDA o : o.n = n)

\* the bytes a channel's peer has received from Write calls, in order
RECURSIVE Received(_)
Received(ops) ==
    IF ops = <<>> THEN <<>>
    ELSE (IF Head(ops).op = "Write" /\ Head(ops).sent THEN Head(ops).data ELSE <<>>)
         \o Received(Tail(ops))

\* the server had closed the channel when the handling of request n began
ClosedBefore(ch, n) ==
    \E k \in 1..Len(ch.ops) :
        /\ ch.ops[k].op = "Close" /\ ch.ops[k].n # n
        /\ \E j \in (k + 1)..Len(ch.ops) : ch.ops[j].n = n

\* a payload is well-formed when its first four bytes are the length of the rest
WellFormed(p) == Len(p) >= 4 /\ SubSeq(p, 1, 4) = U32BE(Len(p) - 4)

\* the command string of a well-formed payload
DecodeString(p) == SubSeq(p, 5, Len(p))

\* C1: a connection is dispatched to handleConnection only when the key its
\* peer offered is in the authorized-key set; of the handshakes the peer
\* carries through, exactly those offering such a key succeed; a key that is
\* not in the set always fails.
C1_HandshakeIffKeyAuthorized ==
    \A c \in ConnIds :
        /\ conns[c].st = "serving" => KeyInFile(conns[c].peer.key)
        /\ Handshaken(c) /\ ~KeyInFile(conns[c].peer.key) => conns[c].st = "failed"
        /\ Handshaken(c) /\ conns[c].peer.completes =>
              (conns[c].st = "serving" <=> KeyInFile(conns[c].peer.key))

\* an authorized peer is being served and an unauthorized one has failed
C1_Witness ==
    \E c, d \in ConnIds :
        /\ conns[c].st = "serving" /\ KeyInFile(conns[c].peer.key)
        /\ conns[d].st = "failed" /\ ~KeyInFile(conns[d].peer.key)

\* C2: on every connection, a channel-open is accepted or rejected and a
\* channel request is handled only after that connection's handshake has
\* succeeded with an authorized key.
C2_NoChannelWithoutAuth ==
    \A c \in ConnIds : \A i \in 1..Len(chans[c]) :
        (chans[c][i].st # "new" \/ chans[c][i].done # <<>> \/ chans[c][i].ops # <<>>)
            => /\ conns[c].st = "serving"
               /\ KeyInFile(conns[c].peer.key)
               /\ conns[c].peer.completes

\* a peer with an unrelated key has failed with its channel-open still
\* unanswered, while an exec was handled on another connection
C2_Witness ==
    \E c, d \in ConnIds :
        /\ conns[c].st = "failed" /\ ~KeyInFile(conns[c].peer.key)
        /\ chans[c] # <<>> /\ chans[c][1].st = "new"
        /\ chans[d] # <<>> /\ chans[d][1].done # <<>> /\ chans[d][1].done[1].type = "exec"

\* C3: a session channel whose first request is exec "whoami" has delivered
\* exactly "You are: <user>\n" to its peer, <user> being the connection's user.
C3_ExecWhoami ==
    \A c \in ConnIds : \A i \in 1..Len(chans[c]) :
        LET ch == chans[c][i]
        IN  (ch.done # <<>> /\ ch.done[1].type = "exec"
                /\ ch.done[1].payload = EncodeString(whoami))
            => Received(ch.ops) = YouAre \o conns[c].peer.user \o NL

\* user bob has run exec "whoami" on a session channel
C3_Witness ==
    \E c \in ConnIds : \E i \in 1..Len(chans[c]) :
        /\ conns[c].peer.user = bob
        /\ chans[c][i].type = "session"
        /\ chans[c][i].done # <<>>
        /\ chans[c][i].done[1].type = "exec"
        /\ chans[c][i].done[1].payload = EncodeString(whoami)

\* C4: every step that calls the command executor yields "You are: <user>\n"
\* for the command "whoami" and "Command Not Found: <command>\n" for every
\* other command, and changes nothing of the server's state.
C4_ClosedTable ==
    [][xPc = "payload" /\ xPc' = "done" =>
          /\ xPayload = whoami => xResult' = YouAre \o xUser \o NL
          /\ xPayload # whoami => xResult' = CommandNotFound \o xPayload \o NL
          /\ UNCHANGED <<srvVars, xUser, xRequest, xPayload>>]_vars

\* the executor has answered a command that is not in the table
C4_Witness == xPc = "done" /\ xPayload = uptime /\ xUser = alice

\* C5: the command handed to the executor is the command string of the
\* well-formed payload, whatever its length.
C5_PayloadDecoded ==
    (xPc \in {"payload", "done"} /\ WellFormed(xRequest)) => xPayload = DecodeString(xRequest)

\* C6: a channel-open whose type is not "session" is never accepted: it is
\* rejected with "unknown channel type" and gets no request loop; the
\* connection is still served, its next channel-open can be handled, and a
\* "session" channel-open is accepted.
C6_RejectUnknownChannelType ==
    \A c \in ConnIds : \A i \in 1..Len(chans[c]) :
        LET ch == chans[c][i]
        IN  /\ ch.type # "session" =>
                 /\ ch.st \in {"new", "rejected"}
                 /\ ch.in = <<>> /\ ch.done = <<>> /\ ch.terms = 0
                 /\ ch.st = "rejected" =>
                       /\ ch.ops = <<Op("Reject", 0, "unknown channel type", <<>>, FALSE, TRUE)>>
                       /\ conns[c].st = "serving"
                       /\ \A j \in (i + 1)..Len(chans[c]) :
                             (chans[c][j].st = "new"
                                 /\ \A k \in 1..(j - 1) : chans[c][k].st # "new")
                             => ENABLED HandleNewChannel(c, j)
            /\ ch.type = "session" =>
                 /\ ch.st \in {"new", "accepted"}
                 /\ (ch.st = "accepted" /\ ch.in # <<>>) =>
                       (ENABLED ReceiveRequest(c, i) \/ ENABLED HandleRequest(c, i))

\* a "shell-proxy" channel-open was rejected and a later "session" channel of
\* the same connection was accepted and has had a request handled
C6_Witness ==
    \E c \in ConnIds : \E i, j \in 1..Len(chans[c]) :
        /\ i < j
        /\ chans[c][i].type = "shell-proxy" /\ chans[c][i].st = "rejected"
        /\ chans[c][j].st = "accepted" /\ chans[c][j].done # <<>>

\* C7: the handling of an exec request calls, once each and in this order,
\* Write (the result), SendRequest (exit-status), Reply and Close, and nothing
\* after Close; on a channel the server had not closed before, all reach the
\* peer, the reply only when the request wants one; on a channel it had
\* closed, none does.
C7_ExecOrder ==
    \A c \in ConnIds : \A i \in 1..Len(chans[c]) :
        LET ch == chans[c][i]
        IN  \A n \in 1..Len(ch.done) :
                ch.done[n].type = "exec" =>
                    LET os == OpsBy(ch, n)
                        open == ~ClosedBefore(ch, n)
                    IN  /\ Len(os) = 4
                        /\ os[1].op = "Write" /\ os[1].sent = open
                        /\ os[2].op = "SendRequest" /\ os[2].name = "exit-status"
                        /\ os[2].sent = open
                        /\ os[3].op = "Reply" /\ os[3].sent = (open /\ ch.done[n].wantReply)
                        /\ os[4].op = "Close" /\ os[4].sent = open

\* an exec that wants a reply was handled on an open channel, and another
\* exec after it on the same channel
C7_Witness ==
    \E c \in ConnIds : \E i \in 1..Len(chans[c]) :
        /\ Len(chans[c][i].done) = 2
        /\ chans[c][i].done[1].type = "exec" /\ chans[c][i].done[1].wantReply
        /\ chans[c][i].done[2].type = "exec"

\* C8: every exit-status message is the four zero bytes, sent without a
\* reply wanted, and every handled exec request has exactly one.
C8_ExitStatusZero ==
    \A c \in ConnIds : \A i \in 1..Len(chans[c]) :
        LET ch == chans[c][i]
        IN  /\ \A k \in 1..Len(ch.ops) :
                  ch.ops[k].op = "SendRequest" =>
                      /\ ch.ops[k].name = "exit-status"
                      /\ ch.ops[k].data = <<0, 0, 0, 0>>
                      /\ ch.ops[k].ok = FALSE
            /\ \A n \in 1..Len(ch.done) :
                  ch.done[n].type = "exec" =>
                      Len(SelectSeq(OpsBy(ch, n), LAMBDA o : o.op = "SendRequest")) = 1

\* an exec of a command the executor does not know was handled
C8_Witness ==
    \E c \in ConnIds : \E i \in 1..Len(chans[c]) :
        /\ chans[c][i].done # <<>>
        /\ chans[c][i].done[1] = Request("exec", EncodeString(ls), TRUE)
        /\ \E k \in 1..Len(chans[c][i].ops) :
              chans[c][i].ops[k].op = "SendRequest" /\ chans[c][i].ops[k].sent

\* C9: no channel has both had a command executed for an exec request and
\* an interactive terminal attached by pty-req.
C9_OneTerminalMode ==
    \A c \in ConnIds : \A i \in 1..Len(chans[c]) :
        ~ (/\ chans[c][i].terms > 0
           /\ \E n \in 1..Len(chans[c][i].done) :
                 /\ chans[c][i].done[n].type = "exec"
                 /\ \E k \in 1..Len(chans[c][i].ops) :
                       chans[c][i].ops[k].n = n /\ chans[c][i].ops[k].op = "Write")

\* C10: an exec request handled after a pty-req on the same channel gets no
\* command result written and is answered with failure.
C10_ExecAfterPtyRejected ==
    \A c \in ConnIds : \A i \in 1..Len(chans[c]) :
        LET ch == chans[c][i]
        IN  \A n \in 1..Len(ch.done) :
                (ch.done[n].type = "exec" /\ \E m \in 1..(n - 1) : ch.done[m].type = "pty-req")
                => /\ \A k \in 1..Len(OpsBy(ch, n)) : OpsBy(ch, n)[k].op # "Write"
                   /\ \E k \in 1..Len(OpsBy(ch, n)) :
                         OpsBy(ch, n)[k].op = "Reply" /\ ~OpsBy(ch, n)[k].ok

\* the request types the request loop has a case for
KnownTypes == {"exec", "shell", "pty-req"}

\* the step returns from the handling of a request of channel i of connection c
Handled(c, i) ==
    /\ chans[c][i].cur # <<>>
    /\ chans'[c][i].done = Append(chans[c][i].done, Head(chans[c][i].cur))

\* the step changes channel ch into ch2 by exactly one Reply call with result
\* ok for the request req, and by moving req from cur to done
OnlyReplies(ch, ch2, req, ok) ==
    ch2 = [ch EXCEPT !.cur = Tail(@),
                     !.done = Append(@, req),
                     !.ops = Append(@, Op("Reply", Len(ch.done) + 1, "", <<>>, ok,
                                          ~ch.sentClose /\ req.wantReply))]

\* C11: the handling of a shell request calls Reply with success, which
\* reaches the peer when the request wants a reply and the channel is open,
\* and does nothing else: no Write, no terminal attached, no command
\* executed, no Close, and nothing changed outside the channel.
C11_ShellOnlyReplies ==
    [][\A c \in ConnIds : \A i \in 1..Len(chans[c]) :
          (Handled(c, i) /\ Head(chans[c][i].cur).type = "shell") =>
              /\ OnlyReplies(chans[c][i], chans'[c][i], Head(chans[c][i].cur), TRUE)
              /\ chans' = [chans EXCEPT ![c][i] = chans'[c][i]]
              /\ UNCHANGED <<authorizedKeys, privateKeyOk, authorizedKeysMap, srvPc, srvErr,
                             nConn, conns, events, lsnVars>>]_vars

\* a shell request was handled on an open channel: its handling made one
\* successful Reply that reached the peer
C11_Witness ==
    \E c \in ConnIds : \E i \in 1..Len(chans[c]) :
        /\ chans[c][i].done # <<>> /\ chans[c][i].done[1].type = "shell"
        /\ chans[c][i].ops = <<Op("Reply", 1, "", <<>>, TRUE, TRUE)>>
        /\ ~chans[c][i].sentClose /\ chans[c][i].terms = 0

\* C12: the handling of a request whose type is not exec, shell or pty-req
\* calls Reply with failure and changes nothing else: the channel is not
\* closed by it, its request loop can receive the next request, and an exec
\* right after it on a channel still open has its result delivered.
C12_OtherTypeFails ==
    /\ [][\A c \in ConnIds : \A i \in 1..Len(chans[c]) :
            (Handled(c, i) /\ Head(chans[c][i].cur).type \notin KnownTypes) =>
                /\ OnlyReplies(chans[c][i], chans'[c][i], Head(chans[c][i].cur), FALSE)
                /\ chans' = [chans EXCEPT ![c][i] = chans'[c][i]]
                /\ UNCHANGED <<authorizedKeys, privateKeyOk, authorizedKeysMap, srvPc, srvErr,
                               nConn, conns, events, lsnVars>>]_vars
    /\ [](\A c \in ConnIds : \A i \in 1..Len(chans[c]) :
            LET ch == chans[c][i]
            IN  \A n \in 1..Len(ch.done) :
                    ch.done[n].type \notin KnownTypes =>
                        /\ \A k \in 1..Len(OpsBy(ch, n)) : OpsBy(ch, n)[k].op # "Close"
                        /\ (n = Len(ch.done) /\ ch.cur = <<>> /\ ch.in # <<>>)
                               => ENABLED ReceiveRequest(c, i)
                        /\ (n < Len(ch.done) /\ ch.done[n + 1].type = "exec"
                                /\ ~ClosedBefore(ch, n + 1))
                               => /\ OpsBy(ch, n + 1)[1].op = "Write"
                                  /\ OpsBy(ch, n + 1)[1].sent
                                  /\ OpsBy(ch, n + 1)[1].data =
                                        execSomething(conns[c].peer.user,
                                                      ExecPayload(ch.done[n + 1])))

\* an "env" request was answered with failure on an open channel and the
\* exec "whoami" sent after it delivered its result
C12_Witness ==
    \E c \in ConnIds : \E i \in 1..Len(chans[c]) :
        /\ Len(chans[c][i].done) = 2
        /\ chans[c][i].done[1].type = "env"
        /\ chans[c][i].done[2] = Request("exec", EncodeString(whoami), TRUE)
        /\ chans[c][i].ops[1] = Op("Reply", 1, "", <<>>, FALSE, TRUE)
        /\ Received(chans[c][i].ops) = YouAre \o conns[c].peer.user \o NL

\* C13: on every channel at most one request is being handled, the requests
\* are received and their handlings return in arrival order, and the calls
\* made for request n all come before the calls made for request n+1.
C13_OneAtATimeInOrder ==
    \A c \in ConnIds : \A i \in 1..Len(chans[c]) :
        LET ch == chans[c][i]
        IN  /\ Len(ch.cur) <= 1
            /\ ch.arrived = ch.done \o ch.cur \o ch.in
            /\ \A j, k \in 1..Len(ch.ops) :
                  (j < k /\ ch.ops[j].n > 0 /\ ch.ops[k].n > 0) => ch.ops[j].n <= ch.ops[k].n
            /\ \A k \in 1..Len(ch.ops) : ch.ops[k].n <= Len(ch.done)

\* two channels of one connection each have a request being handled
C13_Witness ==
    \E c \in ConnIds : \E i, j \in 1..Len(chans[c]) :
        /\ i # j
        /\ Len(chans[c][i].cur) = 1
        /\ Len(chans[c][j].cur) = 1

\* the calls a terminal made on a channel after the channel's k-th ReadLine
\* returned, in order
TermOpsBy(ch, k) == OpsBy(ch, 0 - k)

\* the step is a ReadLine of a terminal of channel i of connection c that
\* returns a line
ReadsLine(c, i) ==
    /\ chans[c][i].stdin # <<>>
    /\ chans'[c][i].read = Append(chans[c][i].read, Head(chans[c][i].stdin))

\* the step is a ReadLine of a terminal of channel i of connection c that
\* returns the end of input
ReadsEOF(c, i) ==
    /\ chans[c][i].terms > chans[c][i].ended
    /\ chans[c][i].stdin = <<>> /\ chans[c][i].eof
    /\ chans'[c][i] # chans[c][i]
    /\ chans'[c][i].arrived = chans[c][i].arrived
    /\ chans'[c][i].in = chans[c][i].in
    /\ chans'[c][i].cur = chans[c][i].cur

\* C14: on a channel with one terminal, the line "quit" makes the terminal
\* write the farewell and then close the channel, and it is the last line the
\* terminal reads.
C14_QuitEndsLoop ==
    \A c \in ConnIds : \A i \in 1..Len(chans[c]) :
        LET ch == chans[c][i]
        IN  ch.terms = 1 =>
                \A k \in 1..Len(ch.read) :
                    ch.read[k] = quit =>
                        /\ Len(TermOpsBy(ch, k)) = 2
                        /\ TermOpsBy(ch, k)[1].op = "TermWrite"
                        /\ TermOpsBy(ch, k)[1].data = Goodbye
                        /\ TermOpsBy(ch, k)[2].op = "Close"
                        /\ k = Len(ch.read)

\* C15: a ReadLine that returns the empty line changes the channel only by
\* taking the line from its input: no call is made on the channel, it is not
\* closed, the terminal's loop has not ended, and nothing else in the server
\* changes.
C15_EmptyLineNoOp ==
    [][\A c \in ConnIds : \A i \in 1..Len(chans[c]) :
          (ReadsLine(c, i) /\ Head(chans[c][i].stdin) = <<>>) =>
              /\ chans' = [chans EXCEPT ![c][i].stdin = Tail(@),
                                        ![c][i].read = Append(@, <<>>)]
              /\ chans'[c][i].terms > chans'[c][i].ended
              /\ UNCHANGED <<authorizedKeys, privateKeyOk, authorizedKeysMap, srvPc, srvErr,
                             nConn, conns, events, lsnVars>>]_vars

\* a terminal read an empty line and then "whoami", which it answered on the
\* open channel
C15_Witness ==
    \E c \in ConnIds : \E i \in 1..Len(chans[c]) :
        /\ chans[c][i].read = << <<>>, whoami >>
        /\ Len(chans[c][i].ops) = 1
        /\ chans[c][i].ops[1].op = "TermWrite" /\ chans[c][i].ops[1].sent
        /\ ~chans[c][i].sentClose

\* C16: a ReadLine that returns the end of input ends the loop of one
\* terminal of the channel and closes that channel; the connection, its other
\* channels and the accept loop are unchanged, and afterwards the
\* connection's next channel-open, the pending requests and the terminals of
\* its other channels can still be handled.
C16_EOFEndsTerminalOnly ==
    /\ [][\A c \in ConnIds : \A i \in 1..Len(chans[c]) :
            ReadsEOF(c, i) =>
                /\ chans'[c][i].ended = chans[c][i].ended + 1
                /\ chans' = [chans EXCEPT ![c][i] = chans'[c][i]]
                /\ UNCHANGED <<authorizedKeys, privateKeyOk, authorizedKeysMap, srvPc, srvErr,
                               nConn, conns, events, lsnVars>>]_vars
    /\ [](\A c \in ConnIds : \A i \in 1..Len(chans[c]) :
            chans[c][i].ended > 0 =>
                /\ conns[c].st = "serving"
                /\ \A j \in 1..Len(chans[c]) :
                      /\ (chans[c][j].st = "new" /\ \A k \in 1..(j - 1) : chans[c][k].st # "new")
                            => ENABLED HandleNewChannel(c, j)
                      /\ (chans[c][j].st = "accepted" /\ chans[c][j].in # <<>>)
                            => (ENABLED ReceiveRequest(c, j) \/ ENABLED HandleRequest(c, j))
                      /\ (j # i /\ chans[c][j].terms > chans[c][j].ended
                               /\ chans[c][j].stdin # <<>>)
                            => ENABLED TermReadLine(c, j))

\* the terminal of one channel has ended on the end of input, and a channel
\* the connection opened after it was accepted
C16_Witness ==
    \E c \in ConnIds : \E i, j \in 1..Len(chans[c]) :
        /\ i < j
        /\ chans[c][i].ended = 1 /\ chans[c][i].eof /\ chans[c][i].sentClose
        /\ chans[c][j].st = "accepted" /\ ~chans[c][j].sentClose

\* C17: after every line a terminal has read, it made exactly these calls:
\* for "whoami" one write of "You are: <user>\n", <user> being the
\* connection's user; for every line other than "whoami", the empty line and
\* "quit" one write of "Command not found\n" and no Close.
C17_TerminalDispatch ==
    \A c \in ConnIds : \A i \in 1..Len(chans[c]) :
        LET ch == chans[c][i]
        IN  \A k \in 1..Len(ch.read) :
                /\ ch.read[k] = whoami =>
                      /\ Len(TermOpsBy(ch, k)) = 1
                      /\ TermOpsBy(ch, k)[1].op = "TermWrite"
                      /\ TermOpsBy(ch, k)[1].data = YouAre \o conns[c].peer.user \o NL
                /\ ch.read[k] \notin {whoami, <<>>, quit} =>
                      /\ Len(TermOpsBy(ch, k)) = 1
                      /\ TermOpsBy(ch, k)[1].op = "TermWrite"
                      /\ TermOpsBy(ch, k)[1].data = TermNotFound

\* bob's terminal has read "who" and then "whoami" and answered both on the
\* open channel
C17_Witness ==
    \E c \in ConnIds : \E i \in 1..Len(chans[c]) :
        /\ conns[c].peer.user = bob
        /\ chans[c][i].read = <<who, whoami>>
        /\ Len(chans[c][i].ops) = 2
        /\ chans[c][i].ops[1].sent /\ chans[c][i].ops[2].sent

\* C18: a step in which a handshake fails leaves the accept loop at Accept
\* with no error returned and the listener as it was, and changes no other
\* connection and no channel; whenever a handshake has failed and the loop is
\* at Accept with the listener open, the next waiting connection can be
\* accepted.
C18_FailedHandshakeKeepsLoop ==
    /\ [][\A c \in ConnIds :
            (conns[c].st = "handshaking" /\ conns'[c].st = "failed") =>
                /\ srvPc' = "accept"
                /\ conns' = [conns EXCEPT ![c].st = "failed"]
                /\ UNCHANGED <<authorizedKeys, privateKeyOk, authorizedKeysMap, srvErr, chans,
                               events, lsnVars>>]_vars
    /\ [](\A c, d \in ConnIds :
            (/\ conns[c].st = "failed"
             /\ srvPc = "accept" /\ listener = "open"
             /\ conns[d].st = "dialed"
             /\ \A e \in ConnIds : e < d => conns[e].st # "dialed")
            => ENABLED Accept(d))

\* after the handshake of one connection failed, a later connection was
\* accepted and is served, and a channel of it was accepted
C18_Witness ==
    \E c, d \in ConnIds :
        /\ c < d
        /\ conns[c].st = "failed"
        /\ conns[d].st = "serving"
        /\ chans[d] # <<>> /\ chans[d][1].st = "accepted"

\* C19: once Accept has returned an error on a listener that has failed for
\* good, StartServer has returned with an error.
C19_FatalAcceptErrorReturns ==
    (acceptFailed /\ listener = "closed") => (srvPc = "returned" /\ srvErr # "")

\* C20: when the bind has failed, StartServer has returned the listen error
\* and no connection was ever accepted; while the listener is bound and has
\* not failed, StartServer is in its accept loop and has returned nothing.
C20_ReturnsOnlyOnBindFailure ==
    /\ listener = "failed" =>
          /\ srvPc = "returned" /\ srvErr = "listen error"
          /\ \A c \in ConnIds : conns[c].st = "dialed"
    /\ listener = "open" => (srvPc \in {"accept", "handshake"} /\ srvErr = "")

\* the bind has failed and StartServer has returned the listen error
C20_Witness == listener = "failed" /\ srvPc = "returned" /\ srvErr = "listen error"

\* some entry of the authorized-keys data does not parse
HasBadEntry == \E i \in 1..Len(authorizedKeys) : ~authorizedKeys[i].ok

KeysOf(f) == {f[i].key : i \in 1..Len(f)}

\* data f and g parse entirely and hold the same keys
SameKeys(f, g) ==
    /\ \A i \in 1..Len(f) : f[i].ok
    /\ \A i \in 1..Len(g) : g[i].ok
    /\ KeysOf(f) = KeysOf(g)

\* C22: once the authorized-keys data is loaded, the callback permits a
\* candidate key exactly when the data has an entry with that key, and
\* loading any data with the same keys, in another order or with entries
\* repeated, gives the same map.
C22_MembershipBySet ==
    srvPc \in {"parsePrivateKey", "listen"} =>
        /\ \A k \in CandidateKeys : PublicKeyCallback(k) <=> KeyInFile(k)
        /\ \A g \in KeyFiles(MaxKeyLines) :
              SameKeys(authorizedKeys, g) =>
                  /\ ~LoadAuthorizedKeys(g, {}).err
                  /\ LoadAuthorizedKeys(g, {}).map = authorizedKeysMap

\* data with key K1 twice, under two comments, around key K2 was loaded
C22_Witness ==
    /\ authorizedKeys = <<KeyLine("K1", "a"), KeyLine("K2", "a"), KeyLine("K1", "b")>>
    /\ srvPc = "parsePrivateKey"
    /\ PublicKeyCallback("K1") /\ PublicKeyCallback("K2") /\ ~PublicKeyCallback("K3")

\* C23: whenever the listener of a server started by the server command is
\* bound, it is bound to the address of --bind and the port of --port.
C23_ListensOnConfiguredAddress ==
    (cmdPc # "off" /\ listener # "none" /\ listener # "failed")
        => listenAddr = <<bindAddress, serverPort>>

\* the position of the first comma (byte 44) of s, or 0
RECURSIVE CommaAt(_, _)
CommaAt(s, i) ==
    IF i > Len(s) THEN 0 ELSE IF s[i] = 44 THEN i ELSE CommaAt(s, i + 1)

\* the commands of a comma-separated list
RECURSIVE SplitCommas(_)
SplitCommas(s) ==
    IF s = <<>> THEN {}
    ELSE IF CommaAt(s, 1) = 0 THEN {s}
    ELSE {SubSeq(s, 1, CommaAt(s, 1) - 1)} \cup SplitCommas(SubSeq(s, CommaAt(s, 1) + 1, Len(s)))

\* the command is excluded by a non-empty --allowed-commands list
NotAllowed(command) == allowedCmds # <<>> /\ command \notin SplitCommas(allowedCmds)

\* C24: under a non-empty --allowed-commands list, no exec request and no
\* terminal line for the command "whoami" outside the list has that command's
\* result, "You are: <user>\n", written to its channel.
C24_OnlyAllowedCommandsRun ==
    \A c \in ConnIds : \A i \in 1..Len(chans[c]) :
        LET ch == chans[c][i]
            result == YouAre \o conns[c].peer.user \o NL
        IN  /\ \A n \in 1..Len(ch.done) :
                  (ch.done[n].type = "exec" /\ NotAllowed(DecodeString(ch.done[n].payload)))
                      => \A k \in 1..Len(OpsBy(ch, n)) :
                             ~(OpsBy(ch, n)[k].op = "Write" /\ OpsBy(ch, n)[k].data = result)
            /\ \A n \in 1..Len(ch.read) :
                  NotAllowed(ch.read[n])
                      => \A k \in 1..Len(TermOpsBy(ch, n)) :
                             ~(TermOpsBy(ch, n)[k].op = "TermWrite"
                                  /\ TermOpsBy(ch, n)[k].data = result)

\* the state of the client's state machine at a position of the client
ClientState(pc) ==
    CASE pc \in {"ParseTimeout", "ReadKey", "ParseKey"} -> "Idle"
      [] pc = "StartingShell" -> "RequestingPTY"
      [] pc \in {"Done", "Exited"} -> "Terminal"
      [] OTHER -> pc

\* the moves of the state machine, besides staying in a state
ClientMoves ==
    { <<"Idle", "Dialing">>, <<"Dialing", "Authenticated">>,
      <<"Authenticated", "Executing">>, <<"Authenticated", "RequestingPTY">>,
      <<"RequestingPTY", "Interactive">>,
      <<"Idle", "Terminal">>, <<"Dialing", "Terminal">>, <<"Authenticated", "Terminal">>,
      <<"Executing", "Terminal">>, <<"RequestingPTY", "Terminal">>,
      <<"Interactive", "Terminal">> }

\* the last stage the client attempted
LastStage == IF cliTrail = <<>> THEN "" ELSE cliTrail[Len(cliTrail)]

\* C25: a client opens at most one session channel, and exactly one once it
\* is past Authenticated without failing there; with a command it sends
\* nothing but one exec, without a command nothing but pty-req and then
\* shell; and its state changes only along Idle, Dialing, Authenticated,
\* then Executing or RequestingPTY and Interactive, then a terminal state.
C25_ClientOneBranch ==
    /\ [][ClientState(cliPc') # ClientState(cliPc)
             => <<ClientState(cliPc), ClientState(cliPc')>> \in ClientMoves]_vars
    /\ [](/\ cliOpened <= 1
          /\ ClientState(cliPc) \in {"Executing", "RequestingPTY", "Interactive"} => cliOpened = 1
          /\ cliSent # <<>> => cliOpened = 1
          /\ cliCommand # <<>> => cliSent \in {<<>>, <<"exec">>}
          /\ cliCommand = <<>> => cliSent \in {<<>>, <<"pty-req">>, <<"pty-req", "shell">>}
          /\ cliPc = "Done" =>
                cliSent = IF cliCommand # <<>> THEN <<"exec">> ELSE <<"pty-req", "shell">>)

\* an interactive invocation has ended successfully after pty-req and shell
\* on its one session channel
C25_Witness ==
    /\ cliPc = "Done" /\ cliCommand = <<>>
    /\ cliSent = <<"pty-req", "shell">> /\ cliOpened = 1
    /\ cliTrail = <<"timeout", "key load", "key parse", "dial", "session", "pty", "shell", "wait">>

\* C26: in exec mode the client's exit code is the exit status the remote
\* reported when it reported a non-zero one, and the generic code 1 when the
\* session failed without one.
C26_ExecExitMirrorsStatus ==
    LastStage = "exec" =>
        /\ cliOutcome.kind = "exit" => cliExit = cliOutcome.status
        /\ cliOutcome.kind = "error" => cliExit = 1
        /\ cliOutcome.kind = "ok" => cliExit = 0

\* C27: in interactive mode, when the session has ended, the client's exit
\* code (the argument of os.Exit) is the exit status the remote reported when
\* it reported one, 1 after any other error, and the client has ended
\* successfully when there was no error.
C27_InteractiveExit ==
    LastStage = "wait" =>
        /\ cliOutcome.kind = "exit" => (cliPc = "Exited" /\ cliExit = cliOutcome.status)
        /\ cliOutcome.kind = "error" => (cliPc = "Exited" /\ cliExit = 1)
        /\ cliOutcome.kind = "ok" => (cliPc = "Done" /\ cliExit = 0)

\* an interactive session ended with the remote exit status 127 and the
\* client exited with 127
C27_Witness ==
    /\ LastStage = "wait" /\ cliCommand = <<>>
    /\ cliOutcome = ExitOutcome(127) /\ cliExit = 127

\* C28: when a stage has failed, the client has exited with a non-zero code,
\* the failed stage is the last it attempted and it takes no further step;
\* after a failure of the timeout parse, the key load or the key parse no
\* dial was attempted.
C28_FailureEndsAtStage ==
    cliStage # "" =>
        /\ cliPc = "Exited"
        /\ cliExit > 0
        /\ LastStage = cliStage
        /\ ~ENABLED NextClient
        /\ cliStage \in {"timeout", "key load", "key parse"} =>
              \A k \in 1..Len(cliTrail) : cliTrail[k] \notin {"dial", "session", "exec", "pty", "shell", "wait"}

\* the key of a client with a valid timeout did not parse and the client
\* exited with code 1 before dialing
C28_Witness ==
    /\ cliStage = "key parse" /\ cliExit = 1
    /\ cliTrail = <<"timeout", "key load", "key parse">>

\* C29: an interactive client of this server that is waiting for the reply
\* to its pty-req eventually has the shell started (is Interactive).
C29_PtyRequestCompletes ==
    (cliRemote = "gossh" /\ cliPc = "RequestingPTY") ~> (cliPc = "Interactive")

\* the tasks of connection c have all ended: its channel-open loop, the
\* request loop of each of its channels and every terminal attached to them
TasksEnded(c) ==
    /\ conns[c].loopEnded
    /\ \A i \in 1..Len(chans[c]) :
          /\ chans[c][i].st # "new"
          /\ chans[c][i].st = "accepted"
                => chans[c][i].reqEnded /\ chans[c][i].ended = chans[c][i].terms

\* the step is the loss of connection c
LosesConn(c) == ~conns[c].lost /\ conns'[c].lost

\* C30: when a served connection is closed or lost, its channel-open loop, the
\* request loop of each of its channels and every terminal attached to one of
\* its channels eventually end; the loss changes nothing of the other
\* connections, and no loop of a connection that is not lost ends.
C30_LostConnectionTasksEnd ==
    /\ \A c \in 1..MaxEvents : (c \in ConnIds /\ conns[c].lost) ~> (c \in ConnIds /\ TasksEnded(c))
    /\ [][\A c \in ConnIds :
            LosesConn(c) => \A d \in ConnIds \ {c} :
                              /\ conns'[d] = conns[d] /\ chans'[d] = chans[d]
                              /\ ENABLED ServerTask(d) => (ENABLED ServerTask(d))']_vars
    /\ [](\A c \in ConnIds :
            ~conns[c].lost => /\ ~conns[c].loopEnded
                              /\ \A i \in 1..Len(chans[c]) : ~chans[c][i].reqEnded)

\* a connection is lost with a terminal attached to a channel of it, and all
\* its tasks have ended while another connection is still served
C30_Witness ==
    \E c \in ConnIds, d \in ConnIds :
        /\ conns[c].lost /\ TasksEnded(c)
        /\ \E i \in 1..Len(chans[c]) : chans[c][i].terms >= 1
        /\ conns[d].st = "serving" /\ ~conns[d].lost /\ ~conns[d].loopEnded

\* the calls on the byte stream of a channel: writes and closes
StreamOps == {"Write", "TermWrite", "Close"}

\* C31: the byte stream of a channel is written and closed by one task only:
\* no channel has a write or close made by its request loop and also one made
\* by a terminal, and no channel has more than one terminal.
C31_SingleOwner ==
    \A c \in ConnIds : \A i \in 1..Len(chans[c]) :
        LET ch == chans[c][i]
        IN  /\ ch.terms <= 1
            /\ ~ (/\ \E k \in 1..Len(ch.ops) : ch.ops[k].n > 0 /\ ch.ops[k].op \in StreamOps
                  /\ \E k \in 1..Len(ch.ops) : ch.ops[k].n < 0 /\ ch.ops[k].op \in StreamOps)

\* the client is in a call that waits for the remote side after authentication
WaitsForRemote == cliPc \in {"Executing", "RequestingPTY", "StartingShell", "Interactive"}

\* C32: the timeout fails the client only in ssh.Dial (connect and
\* handshake): whenever it has failed a call, the client has exited at the
\* stage "dial"; and a client that waits for a remote side that neither ends
\* nor closes the session stays where it is: it never exits and never finishes.
C32_TimeoutOnlyWhileDialing ==
    /\ [](cliTimedOut => cliPc = "Exited" /\ cliStage = "dial" /\ LastStage = "dial")
    /\ [][(cliRemote = "hung" /\ cliPc \in {"Executing", "Interactive"})
            => cliPc' = cliPc /\ cliExit' = -1 /\ ~cliTimedOut']_vars
    /\ [](WaitsForRemote /\ ~ENABLED NextClient => cliExit = -1 /\ ~cliTimedOut)

\* a client that is authenticated, has opened its session and started the
\* shell on a remote side that never ends the session: it can take no step
C32_Witness ==
    /\ cliRemote = "hung"
    /\ cliPc = "Interactive"
    /\ cliSent = <<"pty-req", "shell">>
    /\ ~cliTimedOut
    /\ ~ENABLED NextClient

\* C33: every close a terminal makes on its channel is made for a line "quit"
\* it has read: a terminal whose ReadLine returned the end of input or an
\* error closes nothing.
C33_TerminalClosesOnlyOnQuit ==
    \A c \in ConnIds : \A i \in 1..Len(chans[c]) :
        LET ch == chans[c][i]
        IN  \A k \in 1..Len(ch.ops) :
                (ch.ops[k].op = "Close" /\ ch.ops[k].n < 0)
                => /\ 0 - ch.ops[k].n <= Len(ch.read)
                   /\ ch.read[0 - ch.ops[k].n] = quit

\* the Reply calls made in the handling of request n of the channel
RepliesTo(ch, n) == SelectSeq(OpsBy(ch, n), LAMBDA o : o.op = "Reply")

\* C34: in the handling of every exec, shell and other-type request the
\* request loop calls Reply exactly once, with success for exec and shell and
\* with failure for the other types; in the handling of a pty-req request it
\* calls Reply not at all, also when the request wants a reply; so no request
\* is answered twice, and a reply goes out only for a request that wants one.
C34_ReplyOnceExceptPtyReq ==
    \A c \in ConnIds : \A i \in 1..Len(chans[c]) :
        LET ch == chans[c][i]
        IN  \A n \in 1..Len(ch.done) :
                IF ch.done[n].type = "pty-req"
                THEN RepliesTo(ch, n) = <<>>
                ELSE /\ Len(RepliesTo(ch, n)) = 1
                     /\ RepliesTo(ch, n)[1].ok = (ch.done[n].type \in {"exec", "shell"})
                     /\ RepliesTo(ch, n)[1].sent => ch.done[n].wantReply
                     /\ (ch.done[n].wantReply /\ ~ClosedBefore(ch, n)) => RepliesTo(ch, n)[1].sent

\* on one channel a pty-req request that wants a reply has been handled
\* without one, and a request of another type has got its reply
C34_Witness ==
    \E c \in ConnIds : \E i \in 1..Len(chans[c]) :
        LET ch == chans[c][i]
        IN  \E n, m \in 1..Len(ch.done) :
                /\ ch.done[n].type = "pty-req" /\ ch.done[n].wantReply
                /\ RepliesTo(ch, n) = <<>>
                /\ ch.done[m].type # "pty-req"
                /\ Len(RepliesTo(ch, m)) = 1 /\ RepliesTo(ch, m)[1].sent

\* the accept loop is in a handshake with a peer that stalls
Stalled == srvPc = "handshake" /\ nConn # 0 /\ conns[nConn].peer.stalls

\* C35: the handshake is made by the accept loop itself. While it handshakes
\* one connection no other is accepted: at most one connection is in its
\* handshake and no Accept is possible. With a peer that stalls in its
\* handshake the loop stays there: every connection that waits to be accepted
\* keeps waiting. The connections dispatched before are served on: their
\* channel-opens and their requests can still be handled.
C35_HandshakeInAcceptLoop ==
    /\ [](srvPc = "handshake"
            => /\ nConn \in ConnIds /\ conns[nConn].st = "handshaking"
               /\ \A c \in ConnIds : conns[c].st = "handshaking" => c = nConn
               /\ \A c \in ConnIds : ~ENABLED Accept(c))
    /\ [](srvPc = "accept" => \A c \in ConnIds : conns[c].st # "handshaking")
    /\ [][Stalled => /\ Stalled'
                     /\ \A c \in ConnIds : conns[c].st = "dialed" => conns'[c].st = "dialed"]_vars
    /\ [](Stalled =>
            \A c \in ConnIds : conns[c].st = "serving" =>
                \A i \in 1..Len(chans[c]) :
                    /\ (chans[c][i].st = "new" /\ \A k \in 1..(i - 1) : chans[c][k].st # "new")
                          => ENABLED HandleNewChannel(c, i)
                    /\ (chans[c][i].st = "accepted" /\ chans[c][i].in # <<>>)
                          => (ENABLED ReceiveRequest(c, i) \/ ENABLED HandleRequest(c, i)))

\* the accept loop is in the handshake of a peer that stalls, a connection
\* dialed later waits, and a connection dispatched before has had a request
\* handled that arrived after the stalled one was accepted
C35_Witness ==
    /\ Stalled
    /\ \E d \in ConnIds : d > nConn /\ conns[d].st = "dialed"
    /\ \E c \in ConnIds : /\ c < nConn /\ conns[c].st = "serving"
                          /\ \E i \in 1..Len(chans[c]) : chans[c][i].done # <<>>

\* the exit-status messages the server has sent on the channel
ExitStatusOps(ch) ==
    SelectSeq(ch.ops, LAMBDA o : o.op = "SendRequest" /\ o.name = "exit-status")

\* C36: every exit-status message on a channel is sent in the handling of an
\* exec request of that channel; a terminal sends none, so a channel that has
\* had no exec request has no exit-status message also after its terminal has
\* closed it, and the client's Wait on an interactive session of this server
\* can only end with an error that carries no exit status.
C36_ExitStatusOnlyForExec ==
    /\ \A c \in ConnIds : \A i \in 1..Len(chans[c]) :
          LET ch == chans[c][i]
          IN  /\ \A k \in 1..Len(ExitStatusOps(ch)) :
                    LET n == ExitStatusOps(ch)[k].n
                    IN  n \in 1..(Len(ch.done) + 1)
                        /\ (IF n <= Len(ch.done) THEN ch.done[n] ELSE Head(ch.cur)).type = "exec"
              /\ (\A n \in 1..Len(ch.arrived) : ch.arrived[n].type # "exec")
                    => ExitStatusOps(ch) = <<>>
    /\ WaitOutcomes("gossh") = {ErrorOutcome}

\* a channel with a terminal and no exec request has been closed by the
\* terminal, after "quit" or at the end of input, with no exit-status sent
C36_Witness ==
    \E c \in ConnIds : \E i \in 1..Len(chans[c]) :
        LET ch == chans[c][i]
        IN  /\ ch.terms = 1
            /\ \A n \in 1..Len(ch.arrived) : ch.arrived[n].type # "exec"
            /\ \E k \in 1..Len(ch.ops) : ch.ops[k].op = "Close" /\ ch.ops[k].n < 0 /\ ch.ops[k].sent
            /\ ExitStatusOps(ch) = <<>>

\* C37: keygen writes the private key file first and the public key file
\* second; a key file that holds the key of this run has the permission bits
\* 0600 (private) or 0644 (public); when the key generation or the writing of
\* the private key fails, the process exits with a code other than zero and
\* has not written to the public key file.
C37_KeygenFilePermissions ==
    /\ kgPc = "Done" => /\ kgExit = 0
                        /\ kgWrites = << <<"private", PrivatePerm>>, <<"public", PublicPerm>> >>
    /\ kgFiles.private.holds = "key" => kgFiles.private.mode = PrivatePerm
    /\ kgFiles.public.holds = "key" => kgFiles.public.mode = PublicPerm
    /\ (kgPc = "Exited" /\ Len(kgWrites) <= 1)
          => /\ kgExit > 0
             /\ \A k \in 1..Len(kgWrites) : kgWrites[k][1] # "public"
             /\ kgFiles.public.holds = ""
====
